---------------------------- MODULE Spec2Model ----------------------------
(***************************************************************************)
(* Gateway request routing of tatumio/blockchain-mcp: chain resolution    *)
(* (TatumConfig, GatewayService), request building and transport          *)
(* (GatewayService.executeChainRequest / executeRequest,                   *)
(* TatumApiClient.executeRpcCall) and the envelopes they return.           *)
(*                                                                         *)
(* A JavaScript string is a sequence of tokens (<<"GET", " ", "/",         *)
(* "blocks">> is 'GET /blocks'); the tokens are chosen so that every       *)
(* substring the code searches for is a sequence of whole tokens.  A       *)
(* JavaScript value is a record tagged by its type in field t.             *)
(***************************************************************************)
EXTENDS Integers, Sequences, FiniteSets, TLC

\* ------------------------------------------------------------- bounds
MaxMethodLen == 3   \* longest method string, in tokens, of the request-building specification
MaxSent == 2        \* most requests dispatched in one behaviour
NumCallers == 2     \* gateway calls in flight at once in the concurrent specification
MaxFetches == 3     \* most catalog fetches started in one behaviour of the concurrent specification
MaxPairs == 3       \* most pairs of a BYO_RPC_CONFIG text of the override-parsing specification

\* ================================================================ state
VARIABLES
  byoRpcUrls,      \* TatumConfig.byoRpcUrls, the override table
  gatewayFeature,  \* the catalog bundled with TatumConfig's GatewayService (gateway.json)
  gatewayService,  \* whether TatumMCPServer.gatewayService is set
  cachedGateways,  \* GatewayService.cachedGateways
  cachedChains,    \* GatewayService.cachedChains
  dataFetched,     \* GatewayService.dataFetched
  methodsCache,    \* GatewayService.methodsCache, keyed by gateway URL
  op,              \* the last call made: its name and arguments, and what the network answered
  sent,            \* the requests that call put on the network
  ret,             \* how that call ended: Return(value) or Throw(error)
  nsent,           \* the number of requests put on the network so far
  pc,              \* where each concurrent gateway call stands
  fetches          \* the number of fetches of the vendor catalog started so far

\* ------------------------------------------------------------ strings
\* String.prototype.startsWith
StartsWith(s, p) == Len(p) <= Len(s) /\ SubSeq(s, 1, Len(p)) = p

\* String.prototype.includes
Includes(s, sub) ==
  \E i \in 1..(Len(s) - Len(sub) + 1) : SubSeq(s, i, i + Len(sub) - 1) = sub

\* method.replace(/^\//, '')
StripLeadingSlash(s) == IF s # <<>> /\ Head(s) = "/" THEN Tail(s) ELSE s

\* index of the first ' ' of s, 0 when there is none
IndexOfSpace(s) ==
  IF \E i \in 1..Len(s) : s[i] = " "
  THEN CHOOSE i \in 1..Len(s) : s[i] = " " /\ \A j \in 1..(i - 1) : s[j] # " "
  ELSE 0

\* s.split(' ')[0]
SplitFirst(s) ==
  IF IndexOfSpace(s) = 0 THEN s ELSE SubSeq(s, 1, IndexOfSpace(s) - 1)

\* s.split(' ')[1], for an s that contains a space
SplitSecond(s) ==
  LET rest == SubSeq(s, IndexOfSpace(s) + 1, Len(s)) IN SplitFirst(rest)

\* String.prototype.toUpperCase, token by token
UpperToken(tok) ==
  CASE tok = "blocks" -> "BLOCKS"
    [] tok = "api/v0" -> "API/V0"
    [] tok = "v1" -> "V1"
    [] tok = "chainweb" -> "CHAINWEB"
    [] tok = "get" -> "GET"
    [] tok = "post" -> "POST"
    [] OTHER -> tok
ToUpperCase(s) == [i \in 1..Len(s) |-> UpperToken(s[i])]

\* encodeURIComponent / URLSearchParams serialisation, token by token
EncodeToken(tok) ==
  CASE tok = " " -> "+"
    [] tok = "/" -> "%2F"
    [] tok = "api/v0" -> "api%2Fv0"
    [] OTHER -> tok
Encode(s) == [i \in 1..Len(s) |-> EncodeToken(s[i])]

\* ----------------------------------------------------- JavaScript values
Undefined == [t |-> "undefined"]
Null == [t |-> "null"]
Str(s) == [t |-> "str", v |-> s]
Num(n) == [t |-> "num", n |-> n]
\* an object is the sequence of its own enumerable entries, in insertion order
Obj(entries) == [t |-> "obj", e |-> entries]
Entry(k, v) == [k |-> k, v |-> v]
Arr(items) == [t |-> "arr", a |-> items]
Bool(b) == [t |-> "bool", b |-> b]

HasKey(o, k) == o.t = "obj" /\ \E i \in 1..Len(o.e) : o.e[i].k = k

\* o?.k : the property k of o, undefined when o has none (or is no object)
Get(o, k) ==
  IF HasKey(o, k)
  THEN o.e[CHOOSE i \in 1..Len(o.e) : o.e[i].k = k].v
  ELSE Undefined

\* ToBoolean
Truthy(x) ==
  CASE x.t = "undefined" -> FALSE
    [] x.t = "null" -> FALSE
    [] x.t = "str" -> x.v # <<>>
    [] x.t = "num" -> x.n # 0
    [] x.t = "bool" -> x.b
    [] OTHER -> TRUE

\* a || b
Or(a, b) == IF Truthy(a) THEN a ELSE b

\* a ?? b
Coalesce(a, b) == IF a.t \in {"undefined", "null"} THEN b ELSE a

\* String(value)
ToStr(x) ==
  CASE x.t = "str" -> x.v
    [] x.t = "num" -> <<ToString(x.n)>>
    [] x.t = "null" -> <<"null">>
    [] x.t = "undefined" -> <<"undefined">>
    [] OTHER -> <<"[object Object]">>


\* ------------------------------------------------------- chain registry
Chain(family, network) == <<family, network>>

RestFamilies ==
  {"ton-", "stellar-", "algorand-", "cardano-", "flow-", "kadena-", "tezos-", "vechain-"}

JsonRpcFamilies ==
  {"bsc-", "avalanche-", "fantom-", "celo-", "cronos-", "klaytn-", "flare-", "haqq-",
   "arbitrum-", "optimism-", "base-", "bitcoin-", "litecoin-", "dogecoin-", "zcash-",
   "solana-", "tron-"}

RestChains == {Chain(f, n) : f \in RestFamilies, n \in {"mainnet", "testnet"}}

JsonRpcChains ==
  {Chain("ethereum-", n) : n \in {"mainnet", "sepolia", "holesky"}}
    \cup {Chain("polygon-", n) : n \in {"mainnet", "amoy"}}
    \cup {Chain(f, n) : f \in JsonRpcFamilies, n \in {"mainnet", "testnet"}}

\* chainProtocolMap[chainName]
getChainProtocol(chainName) ==
  IF chainName \in RestChains THEN "rest"
  ELSE IF chainName \in JsonRpcChains THEN "jsonrpc"
  ELSE "undefined"

\* chainApiConfigs[chainName] || { errorHandling: 'lenient', responseFormat: 'json' }
getChainApiConfig(chainName) ==
  CASE chainName \in {Chain("cardano-", "mainnet"), Chain("cardano-", "testnet")} ->
         [basePathPrefix |-> Str(<<"/", "api/v0">>), errorHandling |-> "strict"]
    [] chainName \in {Chain("flow-", "mainnet"), Chain("flow-", "testnet")} ->
         [basePathPrefix |-> Str(<<"/", "v1">>), errorHandling |-> "lenient"]
    [] chainName = Chain("kadena-", "mainnet") ->
         [basePathPrefix |-> Str(<<"/", "chainweb", "/", "0.0", "/", "mainnet01">>),
          errorHandling |-> "lenient"]
    [] chainName = Chain("kadena-", "testnet") ->
         [basePathPrefix |-> Str(<<"/", "chainweb", "/", "0.0", "/", "testnet04">>),
          errorHandling |-> "lenient"]
    [] OTHER -> [basePathPrefix |-> Undefined, errorHandling |-> "lenient"]

\* -------------------------------------------------------- vendor catalog
GatewayChain(chain, gatewayName, gatewayUrl) ==
  [chain |-> chain, gatewayName |-> gatewayName, gatewayUrl |-> gatewayUrl]

UrlOf(name) == <<"https://">> \o name \o <<".gateway.tatum.io">>

\* the networks of one blockchain, each listed under its own name
Listed(family, networks) ==
  [i \in 1..Len(networks) |->
     GatewayChain(Chain(family, networks[i]), Chain(family, networks[i]),
                  UrlOf(Chain(family, networks[i])))]

\* A catalog as blockchains.json / gateway.json delivers it: a sequence of
\* gateways, each the sequence of its chains.  The ripple entry is reachable
\* under two names (chain 'ripple-mainnet', gatewayName 'xrp-mainnet').
CatalogA ==
  << Listed("ethereum-", <<"mainnet">>),
     Listed("cardano-", <<"mainnet">>),
     Listed("flow-", <<"mainnet">>),
     Listed("kadena-", <<"mainnet", "testnet">>),
     Listed("ton-", <<"mainnet">>),
     << GatewayChain(Chain("ripple-", "mainnet"), Chain("xrp-", "mainnet"),
                     UrlOf(Chain("ripple-", "mainnet"))) >> >>

\* The same networks in another order, with a second entry that also answers
\* to 'xrp-mainnet'.
CatalogB ==
  << << GatewayChain(Chain("xrp-", "mainnet"), Chain("xrp-", "ledger"), UrlOf(Chain("xrp-", "ledger"))) >>,
     << GatewayChain(Chain("ripple-", "mainnet"), Chain("xrp-", "mainnet"),
                     UrlOf(Chain("ripple-", "mainnet"))) >>,
     Listed("ton-", <<"mainnet">>),
     Listed("kadena-", <<"mainnet", "testnet">>),
     Listed("flow-", <<"mainnet">>),
     Listed("cardano-", <<"mainnet">>),
     Listed("ethereum-", <<"mainnet">>) >>

Catalogs == {CatalogA, CatalogB}

\* every registered REST chain, one JSON-RPC chain and the ripple entry
RestFamilySeq ==
  <<"ton-", "stellar-", "algorand-", "cardano-", "flow-", "kadena-", "tezos-", "vechain-">>
CatalogFull ==
  [i \in 1..Len(RestFamilySeq) |-> Listed(RestFamilySeq[i], <<"mainnet", "testnet">>)]
    \o << Listed("ethereum-", <<"mainnet">>),
          << GatewayChain(Chain("ripple-", "mainnet"), Chain("xrp-", "mainnet"),
                          UrlOf(Chain("ripple-", "mainnet"))) >> >>

\* a search that compares the chain field alone
FindChain_ChainOnly(chains, chainName) ==
  LET hits == {i \in 1..Len(chains) : chains[i].chain = chainName}
  IN IF hits = {} THEN Undefined
     ELSE Str(chains[CHOOSE i \in hits : \A j \in hits : i <= j].gatewayUrl)

\* gateway.chains.find(c => c.chain === chainName || c.gatewayName === chainName)
FindChain(chains, chainName) ==
  LET hits == {i \in 1..Len(chains) :
                 chains[i].chain = chainName \/ chains[i].gatewayName = chainName}
  IN IF hits = {} THEN Undefined
     ELSE Str(chains[CHOOSE i \in hits : \A j \in hits : i <= j].gatewayUrl)

\* a search that keeps the last gateway that answers to the name
CatalogGatewayUrl_Last(gateways, chainName) ==
  LET hits == {g \in 1..Len(gateways) : FindChain(gateways[g], chainName) # Undefined}
  IN IF hits = {} THEN Undefined
     ELSE FindChain(gateways[CHOOSE g \in hits : \A h \in hits : g >= h], chainName)

\* for (const gateway of gateways) { const chain = find(...); if (chain) return chain.gatewayUrl }
\* return undefined
CatalogGatewayUrl(gateways, chainName) ==
  LET hits == {g \in 1..Len(gateways) : FindChain(gateways[g], chainName) # Undefined}
  IN IF hits = {} THEN Undefined
     ELSE FindChain(gateways[CHOOSE g \in hits : \A h \in hits : g <= h], chainName)

\* the names a catalog answers to
CatalogNames(gateways) ==
  UNION { UNION { {gateways[g][c].chain, gateways[g][c].gatewayName} :
                    c \in 1..Len(gateways[g]) } : g \in 1..Len(gateways) }

\* ------------------------------------------------- TatumConfig (overrides)
\* a Map as a function on its keys
EmptyMap == [k \in {} |-> <<>>]
MapSet(m, k, v) == [x \in (DOMAIN m) \cup {k} |-> IF x = k THEN v ELSE m[x]]
MapHas(m, k) == k \in DOMAIN m
MapGet(m, k) == IF k \in DOMAIN m THEN Str(m[k]) ELSE Undefined

\* index of the first token sep of s, 0 when there is none
IndexOf(s, sep) ==
  IF \E i \in 1..Len(s) : s[i] = sep
  THEN CHOOSE i \in 1..Len(s) : s[i] = sep /\ \A j \in 1..(i - 1) : s[j] # sep
  ELSE 0

\* String.prototype.split(sep)
RECURSIVE Split(_, _)
Split(s, sep) ==
  IF IndexOf(s, sep) = 0 THEN <<s>>
  ELSE <<SubSeq(s, 1, IndexOf(s, sep) - 1)>> \o Split(SubSeq(s, IndexOf(s, sep) + 1, Len(s)), sep)

\* a trim that leaves the string as it is
Trim_None(s) == s

\* String.prototype.trim
RECURSIVE Trim(_)
Trim(s) ==
  IF s # <<>> /\ Head(s) = " " THEN Trim(Tail(s))
  ELSE IF s # <<>> /\ s[Len(s)] = " " THEN Trim(SubSeq(s, 1, Len(s) - 1))
  ELSE s

\* the for loop of loadByoRpcConfig over the trimmed, non-empty pairs
RECURSIVE LoadPairs(_, _)
LoadPairs(pairs, table) ==
  IF pairs = <<>> THEN table
  ELSE LET parts == Split(Head(pairs), ",")
           chain == Trim(parts[1])
           url == IF Len(parts) >= 2 THEN Trim(parts[2]) ELSE <<>>
       IN LoadPairs(Tail(pairs),
                    IF chain # <<>> /\ url # <<>> THEN MapSet(table, chain, url) ELSE table)

\* TatumConfig.loadByoRpcConfig: the override table of a BYO_RPC_CONFIG value
loadByoRpcConfig(byoRpcEnv) ==
  IF ~Truthy(byoRpcEnv) THEN EmptyMap
  ELSE LET split == Split(byoRpcEnv.v, ";")
           trimmed == [i \in 1..Len(split) |-> Trim(split[i])]
           pairs == SelectSeq(trimmed, LAMBDA pair : Len(pair) > 0)
       IN LoadPairs(pairs, EmptyMap)

MyNode == <<"https://my-node.example">>
MyXrp == <<"https://xrp.example">>
MyChainUrl == <<"https://my-chain.example">>

\* BYO_RPC_CONFIG values: unset; one listed chain; an alias name, a name of no
\* catalog and a pair without URL, with blanks around the separators
ByoRpcEnvs ==
  { Undefined,
    Str(Chain("ethereum-", "mainnet") \o <<",">> \o MyNode),
    Str(Chain("xrp-", "mainnet") \o <<",", " ">> \o MyXrp \o <<" ", ";", " ">>
          \o Chain("my-", "chain") \o <<" ", ",">> \o MyChainUrl \o <<";">>
          \o Chain("cardano-", "mainnet") \o <<",">>) }

\* a resolver that lets an override answer for every name of its endpoint
ConfigGetGatewayUrl_Alias(overrides, gateways, chain) ==
  LET listed == CatalogGatewayUrl(gateways, chain)
      same == {k \in DOMAIN overrides :
                 Truthy(listed) /\ CatalogGatewayUrl(gateways, k) = listed}
  IN IF same # {} THEN Str(overrides[CHOOSE k \in same : TRUE])
     ELSE IF Truthy(MapGet(overrides, chain)) THEN MapGet(overrides, chain)
          ELSE listed

\* a resolver that asks the catalog first and the override table second
ConfigGetGatewayUrl_CatalogFirst(overrides, gateways, chain) ==
  LET listed == CatalogGatewayUrl(gateways, chain)
  IN IF Truthy(listed) THEN listed ELSE MapGet(overrides, chain)

\* TatumConfig.getGatewayUrl, over the override table and the bundled catalog
ConfigGetGatewayUrl(overrides, gateways, chain) ==
  LET customUrl == MapGet(overrides, chain)
  IN IF Truthy(customUrl) THEN customUrl ELSE CatalogGatewayUrl(gateways, chain)

\* TatumConfig.hasCustomRpcUrl
hasCustomRpcUrl(overrides, chain) == MapHas(overrides, chain)

\* --------------------------------------------------- requests, responses
ApiKey == <<"test-api-key">>

\* an outbound HTTP request as it reaches the network
Request(verb, url, headers, body) ==
  [verb |-> verb, url |-> url, headers |-> headers, body |-> body]

\* JSON.stringify(value): the text that parses back to value
JsonText(value) == [t |-> "json", v |-> value]

\* TatumApiResponse; a field the code does not set is undefined
Envelope(error, status, statusText, data) ==
  [error |-> error, status |-> status, statusText |-> statusText, data |-> data]

\* new Error(message): no status, no statusText
Error(message) == Obj(<<Entry("message", Str(message))>>)

Return(value) == [threw |-> FALSE, v |-> value]
Throw(error) == [threw |-> TRUE, v |-> error]

\* what a call did: the requests it put on the network and how it ended
Did(requests, res) == [sent |-> requests, res |-> res]

\* a response body: its text, and the value the text parses to as JSON
Invalid == [t |-> "invalid"]
Body(raw, parsed) == [raw |-> raw, parsed |-> parsed]
BodyResult == Body(<<"{result}">>, Obj(<<Entry("result", Str(<<"0x10">>))>>))
BodyError == Body(<<"{error}">>, Obj(<<Entry("error", Str(<<"Rate limit exceeded">>))>>))
BodyMessage ==
  Body(<<"{message,error}">>,
       Obj(<<Entry("error", Str(<<"Rate limit exceeded">>)),
             Entry("message", Str(<<"Slow down">>))>>))
BodyBlankMessage ==
  Body(<<"{message:'',error}">>,
       Obj(<<Entry("message", Str(<<>>)), Entry("error", Str(<<"Rate limit exceeded">>))>>))
BodyNoFields == Body(<<"{}">>, Obj(<<>>))
BodyGarbage == Body(<<"<html>">>, Invalid)
BodyEmpty == Body(<<" ">>, Invalid)

ContentJson == Str(<<"application/json", "; charset=utf-8">>)
ContentHtml == Str(<<"text/html">>)

Response(status, statusText, contentType, body) ==
  [kind |-> "response", status |-> status, statusText |-> statusText,
   contentType |-> contentType, body |-> body]
Rejected(message) == [kind |-> "reject", message |-> message]

\* what the network can answer to fetch(): no response at all, or a response
FetchOutcomes ==
  { Rejected(<<"fetch failed">>), Response(200, <<"OK">>, Null, BodyResult) }
    \cup { Response(200, <<"OK">>, ct, b) :
             ct \in {ContentJson, ContentHtml},
             b \in {BodyResult, BodyGarbage, BodyEmpty} }
    \cup { Response(429, <<"Too Many Requests">>, ContentJson, b) :
             b \in {BodyError, BodyMessage, BodyBlankMessage, BodyNoFields, BodyGarbage} }
    \cup { Response(429, <<"Too Many Requests">>, ContentHtml, BodyError) }

\* response.ok
Ok(response) == response.status >= 200 /\ response.status <= 299

\* --------------------------------------------- GatewayService: requests
GatewayHeaders == ("Content-Type" :> <<"application/json">>) @@ ("X-API-Key" :> ApiKey)

\* { jsonrpc: '2.0', id: 1, method, params }
Rpc(jsonrpc, id, method, params) ==
  [t |-> "rpc", jsonrpc |-> jsonrpc, id |-> id, method |-> method, params |-> params]

\* a body whose id counts the requests sent
RpcBody_Counter(method, params) == JsonText(Rpc("2.0", nsent + 1, method, params))

\* the body of a JSON-RPC request
RpcBody(method, params) == JsonText(Rpc("2.0", 1, method, params))

\* GatewayService.executeJsonRpcRequest
executeJsonRpcRequest(url, method, params, out) ==
  LET request == Request(<<"POST">>, url, GatewayHeaders, RpcBody(method, params))
  IN Did(<<request>>,
         IF out.kind = "reject" THEN Throw(Error(out.message))
         ELSE IF out.body.parsed = Invalid
              THEN Throw(Error(<<"Unexpected token in JSON">>))
              ELSE Return(Envelope(Undefined, Num(out.status), Str(out.statusText),
                                   out.body.parsed)))

\* URLSearchParams.toString() of the appended entries
RECURSIVE QueryString(_)
QueryString(entries) ==
  IF entries = <<>> THEN <<>>
  ELSE Encode(Head(entries).k) \o <<"=">> \o Encode(ToStr(Head(entries).v))
         \o (IF Tail(entries) = <<>> THEN <<>> ELSE <<"&">> \o QueryString(Tail(entries)))

\* a collection that keeps the null and undefined values too
QueryEntries_All(params) ==
  IF Len(params) = 1 /\ params[1].t = "obj" THEN params[1].e ELSE <<>>

\* the query parameters executeRestRequestWithConfig collects from params
QueryEntries(params) ==
  IF Len(params) = 1 /\ params[1].t = "obj"
  THEN SelectSeq(params[1].e, LAMBDA en : en.v # Undefined /\ en.v # Null)
  ELSE <<>>

\* fetch() refuses a method that is no HTTP token before it sends anything
ValidVerb(verb) == verb # <<>> /\ \A i \in 1..Len(verb) : verb[i] \notin {"/", "api/v0"}

\* GatewayService.executeRestRequestWithConfig (fetch is within its try)
executeRestRequestWithConfig(baseUrl, methodPath, params, out) ==
  LET spaced == Includes(methodPath, <<" ">>)
      httpMethod == IF spaced THEN SplitFirst(methodPath) ELSE <<"GET">>
      restPath == IF spaced THEN SplitSecond(methodPath) ELSE methodPath
      url0 == baseUrl \o restPath
      verb == ToUpperCase(httpMethod)
      query == IF verb = <<"GET">> /\ Len(params) > 0
               THEN QueryString(QueryEntries(params)) ELSE <<>>
      url == IF query # <<>>
             THEN url0 \o (IF Includes(url0, <<"?">>) THEN <<"&">> ELSE <<"?">>) \o query
             ELSE url0
      body == IF verb = <<"POST">> THEN JsonText(Arr(params)) ELSE Undefined
      request == Request(verb, url, GatewayHeaders, body)
      isJson == Truthy(out.contentType) /\ Includes(out.contentType.v, <<"application/json">>)
      \* a body is read once: response.text() after a failed JSON.parse rejects,
      \* and the inner catch puts an object in place of the data
      data == IF isJson
              THEN IF Trim(out.body.raw) = <<>> THEN Null
                   ELSE IF out.body.parsed = Invalid
                        THEN Obj(<<Entry("error", Str(<<"Failed to parse response">>)),
                                   Entry("originalError", Error(<<"Unexpected token in JSON">>)),
                                   Entry("url", Str(url)), Entry("method", Str(httpMethod))>>)
                        ELSE out.body.parsed
              ELSE Str(out.body.raw)
      errorMessage ==
        Or(Get(data, "message"),
           Or(Get(data, "error"),
              Str(<<"HTTP ", ToString(out.status), ": ">> \o out.statusText)))
      networkError(message) ==
        Envelope(Str(<<"Network error: ">> \o message), Num(500), Str(<<"Network Error">>), Null)
  IN IF ~ValidVerb(verb)
     THEN Did(<<>>, Return(networkError(<<"invalid HTTP method">>)))
     ELSE Did(<<request>>,
              Return(IF out.kind = "reject" THEN networkError(out.message)
                     ELSE IF ~Ok(out)
                          THEN Envelope(errorMessage, Num(out.status), Str(out.statusText), data)
                          ELSE Envelope(Undefined, Num(out.status), Str(out.statusText), data)))

\* the catch of executeRequest and executeChainRequest
CaughtEnvelope(error) ==
  Envelope(Or(Get(error, "message"), Str(<<"Request failed">>)),
           Or(Get(error, "status"), Num(500)),
           Or(Get(error, "statusText"), Str(<<"Error">>)),
           Undefined)

\* a call whose try has no catch
Caught_Rethrow(did) == did

Caught(did) == IF did.res.threw THEN Did(did.sent, Return(CaughtEnvelope(did.res.v))) ELSE did

\* GatewayService.executeRequest
executeRequest(gatewayUrl, method, body, out) ==
  Caught(IF Includes(method, <<" ">>)
         THEN executeRestRequestWithConfig(gatewayUrl, method, body, out)
         ELSE executeJsonRpcRequest(gatewayUrl, method, body, out))

\* ------------------------------------------ GatewayTools: supported chains
\* the static GatewayService.getSupportedChains: the gatewayName of every chain
\* of every gateway of the bundled catalog, in order
RECURSIVE StaticSupportedChains(_)
StaticSupportedChains(gateways) ==
  IF gateways = <<>> THEN <<>>
  ELSE [c \in 1..Len(Head(gateways)) |-> Head(gateways)[c].gatewayName]
         \o StaticSupportedChains(Tail(gateways))

\* Array.from(byoRpcUrls.keys())
RECURSIVE Keys(_)
Keys(m) ==
  IF DOMAIN m = {} THEN <<>>
  ELSE LET k == CHOOSE x \in DOMAIN m : TRUE
       IN <<k>> \o Keys([x \in (DOMAIN m) \ {k} |-> m[x]])

\* [...new Set(items)]: each value once, at the place of its first occurrence
RECURSIVE Unique(_)
Unique(items) ==
  IF items = <<>> THEN <<>>
  ELSE LET front == Unique(SubSeq(items, 1, Len(items) - 1))
           last == items[Len(items)]
       IN IF \E i \in 1..Len(front) : front[i] = last THEN front ELSE Append(front, last)

\* [...new Set([...officialChains, ...customChains])]
UniqueOfficial(officialChains, customChains) == Unique(officialChains \o customChains)

\* GatewayTools.getSupportedChains
ToolsGetSupportedChains(overrides, gateways) ==
  UniqueOfficial(StaticSupportedChains(gateways), Keys(overrides))

\* ----------------------------------------- GatewayTools: supported methods
\* one endpoint of a method catalog: { protocol, methods }
Endpoint(protocol, methods) ==
  Obj(<<Entry("protocol", Str(protocol)), Entry("methods", Arr(methods))>>)

EvmMethods ==
  <<"eth_getBalance", "eth_getTransactionByHash", "eth_getBlockByNumber", "eth_call",
    "eth_sendRawTransaction">>

\* the generic response for unknown chains
GenericMethods ==
  Obj(<<Entry("/jsonrpc",
              Endpoint(<<"json-rpc">>, EvmMethods \o <<"eth_gasPrice", "eth_estimateGas">>))>>)

\* the own properties of mockResponses
mockResponses ==
  (Chain("ethereum-", "mainnet") :>
     Obj(<<Entry("/jsonrpc",
                 Endpoint(<<"json-rpc">>,
                          EvmMethods \o <<"eth_gasPrice", "eth_estimateGas",
                                          "debug_traceTransaction">>))>>))
  @@ (Chain("bitcoin-", "mainnet") :>
     Obj(<<Entry("/jsonrpc",
                 Endpoint(<<"json-rpc">>,
                          <<"getblockchaininfo", "getblock", "gettransaction", "getrawmempool",
                            "sendrawtransaction", "estimatesmartfee">>))>>))
  @@ (Chain("tron-", "mainnet") :>
     Obj(<<Entry("/wallet",
                 Endpoint(<<"rest">>,
                          <<"POST /getnowblock", "POST /getblockbynum", "POST /getaccount",
                            "POST /gettransactionbyid">>)),
           Entry("/walletsolidity",
                 Endpoint(<<"rest">>, <<"POST /getblockbylatestnum", "POST /getaccountbyid">>)),
           Entry("/jsonrpc",
                 Endpoint(<<"json-rpc">>, <<"buildTransaction", "debug_storageRangeAt">>))>>))
  @@ (Chain("polygon-", "mainnet") :>
     Obj(<<Entry("/jsonrpc",
                 Endpoint(<<"json-rpc">>,
                          EvmMethods \o <<"bor_getAuthor", "bor_getCurrentValidators">>))>>))

\* the properties every object literal inherits from Object.prototype
InheritedNames == {<<"constructor">>, <<"toString">>, <<"__proto__">>}
Inherited(name) == [t |-> "inherited", name |-> name]

\* mockResponses[chain]: an own property, an inherited one, or undefined
MockLookup(chain) ==
  IF chain \in DOMAIN mockResponses THEN mockResponses[chain]
  ELSE IF chain \in InheritedNames THEN Inherited(chain)
  ELSE Undefined

\* GatewayTools.getSupportedMethods
getSupportedMethods(chain) ==
  IF MockLookup(chain) # Undefined THEN MockLookup(chain) ELSE GenericMethods

\* ------------------------------------- GatewayService: catalog and routing
\* the fields of a GatewayService
Service(gateways, chains, fetched) ==
  [cachedGateways |-> gateways, cachedChains |-> chains, dataFetched |-> fetched]

\* GatewayService.transformToGateways
transformToGateways(externalBlockchains) ==
  [g \in 1..Len(externalBlockchains) |->
     [c \in 1..Len(externalBlockchains[g]) |->
        GatewayChain(externalBlockchains[g][c].chain, externalBlockchains[g][c].gatewayName,
                     externalBlockchains[g][c].gatewayUrl)]]

\* GatewayService.extractChainNames
RECURSIVE extractChainNames(_)
extractChainNames(externalBlockchains) ==
  IF externalBlockchains = <<>> THEN <<>>
  ELSE [c \in 1..Len(Head(externalBlockchains)) |-> Head(externalBlockchains)[c].gatewayName]
         \o extractChainNames(Tail(externalBlockchains))

\* how the fetch of blockchains.json can end
CatalogLoaded(blockchains) == [ok |-> TRUE, blockchains |-> blockchains]
CatalogFailed(message) == [ok |-> FALSE, message |-> message]
CatalogOutcomes ==
  {CatalogLoaded(CatalogA), CatalogFailed(<<"HTTP error! status: 503">>),
   CatalogFailed(<<"fetch failed">>)}

\* GatewayService.initialize, as ensureDataLoaded calls it: the service after
\* the call, and how the call ended
initialize(svc, catalog) ==
  IF svc.dataFetched THEN [svc |-> svc, res |-> Return(Undefined)]
  ELSE IF catalog.ok
       THEN [svc |-> Service(transformToGateways(catalog.blockchains),
                             extractChainNames(catalog.blockchains), TRUE),
             res |-> Return(Undefined)]
       ELSE [svc |-> Service(<<>>, <<>>, TRUE),
             res |-> Throw(Error(<<"Failed to initialize GatewayService: ">> \o catalog.message))]

\* GatewayService.getGatewayUrl
getGatewayUrl(svc, chainName, catalog) ==
  LET loaded == initialize(svc, catalog)
  IN [svc |-> loaded.svc,
      res |-> IF loaded.res.threw THEN loaded.res
              ELSE Return(CatalogGatewayUrl(loaded.svc.cachedGateways, chainName))]

\* a builder that applies the family rules but never the registry's prefix
RestMethod_NoPrefix(chainName, method, apiConfig) ==
  LET bare == StripLeadingSlash(method)
      generic ==
        IF ~Includes(method, <<" ">>) /\ ~StartsWith(method, <<"GET">>)
             /\ ~StartsWith(method, <<"POST">>)
        THEN <<"GET", " ", "/">> \o bare
        ELSE method
  IN IF StartsWith(chainName, <<"kadena-">>) /\ ~Includes(method, <<"chainweb">>)
     THEN <<"GET", " ", "/", "chainweb", "/", "0.0", "/">>
            \o <<IF Includes(chainName, <<"testnet">>) THEN "testnet04" ELSE "mainnet01">>
            \o <<"/">> \o bare
     ELSE IF StartsWith(chainName, <<"cardano-">>) /\ ~Includes(method, <<"api/v0">>)
     THEN <<"GET", " ", "/", "api/v0", "/">> \o bare
     ELSE IF StartsWith(chainName, <<"flow-">>) /\ ~Includes(method, <<"v1">>)
     THEN <<"GET", " ", "/", "v1", "/">> \o bare
     ELSE generic

\* GatewayService.getSupportedChains: the service after the call, and a copy of
\* cachedChains unless loading the catalog threw
getSupportedChains(svc, catalog) ==
  LET loaded == initialize(svc, catalog)
  IN [svc |-> loaded.svc,
      res |-> IF loaded.res.threw THEN loaded.res
              ELSE Return(Arr(loaded.svc.cachedChains))]

\* a body of the describe-methods endpoint
BodyMethods(methods) ==
  Body(<<"{methods}">>, Obj(<<Entry("/jsonrpc", Endpoint(<<"json-rpc">>, methods))>>))

\* what the network can answer to fetch(`${gatewayUrl}/_methods`)
MethodsOutcomes ==
  { Rejected(<<"fetch failed">>),
    Response(200, <<"OK">>, ContentJson, BodyMethods(<<"eth_call">>)),
    Response(200, <<"OK">>, ContentJson, BodyMethods(<<"eth_call", "eth_gasPrice">>)),
    Response(200, <<"OK">>, ContentJson, Body(<<"null">>, Null)),
    Response(200, <<"OK">>, ContentHtml, BodyGarbage),
    Response(404, <<"Not Found">>, ContentJson, BodyNoFields) }

\* a service that never looks into its cache
CacheHit_Never(cache, gatewayUrl) == FALSE

\* this.methodsCache.has(gatewayUrl)
CacheHit(cache, gatewayUrl) == MapHas(cache, gatewayUrl)

\* GatewayService.getAvailableMethods: the cache after the call, what the call
\* sent and how it ended
getAvailableMethods(cache, gatewayUrl, out) ==
  IF CacheHit(cache, gatewayUrl)
  THEN [cache |-> cache, did |-> Did(<<>>, Return(cache[gatewayUrl]))]
  ELSE LET request == Request(<<"GET">>, gatewayUrl \o <<"/_methods">>, GatewayHeaders, Undefined)
           failed(message) ==
             Throw(Error(<<"Failed to fetch methods: ">> \o message))
       IN IF out.kind = "reject"
          THEN [cache |-> cache, did |-> Did(<<request>>, failed(out.message))]
          ELSE IF ~Ok(out)
          THEN [cache |-> cache,
                did |-> Did(<<request>>,
                            failed(<<"Methods endpoint not available: ", ToString(out.status)>>))]
          ELSE IF out.body.parsed = Invalid
          THEN [cache |-> cache,
                did |-> Did(<<request>>, failed(<<"Unexpected token in JSON">>))]
          ELSE [cache |-> MapSet(cache, gatewayUrl, out.body.parsed),
                did |-> Did(<<request>>, Return(out.body.parsed))]

\* the method string executeChainRequest hands to executeRestRequestWithConfig
RestMethod(chainName, method, apiConfig) ==
  LET bare == StripLeadingSlash(method)
      generic ==
        IF ~Includes(method, <<" ">>) /\ ~StartsWith(method, <<"GET">>)
             /\ ~StartsWith(method, <<"POST">>)
        THEN IF Truthy(apiConfig.basePathPrefix)
                  /\ ~StartsWith(method, apiConfig.basePathPrefix.v)
             THEN <<"GET", " ">> \o apiConfig.basePathPrefix.v \o <<"/">> \o bare
             ELSE <<"GET", " ", "/">> \o bare
        ELSE method
  IN IF StartsWith(chainName, <<"kadena-">>)
     THEN IF ~Includes(method, <<"chainweb">>)
          THEN <<"GET", " ", "/", "chainweb", "/", "0.0", "/">>
                 \o <<IF Includes(chainName, <<"testnet">>) THEN "testnet04" ELSE "mainnet01">>
                 \o <<"/">> \o bare
          ELSE generic
     ELSE IF StartsWith(chainName, <<"cardano-">>)
     THEN IF ~Includes(method, <<"api/v0">>)
          THEN <<"GET", " ", "/", "api/v0", "/">> \o bare
          ELSE generic
     ELSE IF StartsWith(chainName, <<"flow-">>)
     THEN IF ~Includes(method, <<"v1">>)
          THEN <<"GET", " ", "/", "v1", "/">> \o bare
          ELSE generic
     ELSE generic

\* a dispatch that looks at the method string, not at the registry
UsesRest_BySpace(chainName, method) == Includes(method, <<" ">>)

\* which builder executeChainRequest takes for a chain
UsesRest(chainName, method) == getChainProtocol(chainName) = "rest"

\* the try block of executeChainRequest, once the gateway URL is known
ChainDispatch(gatewayUrl, chainName, method, params, out) ==
  IF ~Truthy(gatewayUrl)
  THEN Did(<<>>, Return(Envelope(Str(<<"Gateway URL not found for chain: ">> \o chainName),
                                 Num(404), Str(<<"Not Found">>), Undefined)))
  ELSE IF UsesRest(chainName, method)
       THEN executeRestRequestWithConfig(
              gatewayUrl.v, RestMethod(chainName, method, getChainApiConfig(chainName)),
              params, out)
       ELSE executeJsonRpcRequest(gatewayUrl.v, method, params, out)

\* GatewayService.executeChainRequest: the service after the call, what the
\* call sent and what it returned
executeChainRequest(svc, chainName, method, params, catalog, out) ==
  LET resolved == getGatewayUrl(svc, chainName, catalog)
  IN [svc |-> resolved.svc,
      did |-> Caught(IF resolved.res.threw THEN Did(<<>>, resolved.res)
                     ELSE ChainDispatch(resolved.res.v, chainName, method, params, out))]

\* ------------------------------------------------------- TatumApiClient
\* the headers axios.create() is given: the defaults of every request of the client
ClientDefaultHeaders ==
  ("Content-Type" :> <<"application/json">>) @@ ("X-API-Key" :> ApiKey)

\* the headers executeRpcCall passes to client.post
RpcCallHeaders(isCustomRpc) ==
  IF isCustomRpc THEN ("Content-Type" :> <<"application/json">>)
  ELSE ("Content-Type" :> <<"application/json">>) @@ ("X-API-Key" :> ApiKey)

\* the headers of client.post(url, data, {headers}): the per-call headers over
\* the client's defaults
WireHeaders(defaults, headers) == headers @@ defaults

\* an axios response, and the two ways client.post ends
AxiosResponse(status, statusText, data) ==
  Obj(<<Entry("status", Num(status)), Entry("statusText", Str(statusText)),
        Entry("data", data)>>)
Resolved(response) == [kind |-> "resolve", response |-> response]
RejectedWith(error) == [kind |-> "reject", error |-> error]

RpcResult == Obj(<<Entry("jsonrpc", Str(<<"2.0">>)), Entry("id", Num(1)),
                   Entry("result", Str(<<"0x10">>))>>)

\* bodies of a rejected response
ErrorDatas ==
  { Obj(<<Entry("error", Obj(<<Entry("code", Num(-32601)),
                               Entry("message", Str(<<"Method not found">>))>>))>>),
    Obj(<<Entry("error", Obj(<<Entry("message", Str(<<>>))>>)),
          Entry("message", Str(<<"Slow down">>))>>),
    Obj(<<Entry("error", Str(<<"Rate limit exceeded">>)), Entry("retryAfter", Num(60))>>),
    Obj(<<Entry("message", Str(<<"Slow down">>))>>),
    Obj(<<>>),
    Undefined }

\* client.post resolves on 2xx; it rejects with an Error that carries the
\* response (a non-2xx status), with an Error that carries none (no answer),
\* or, as the test doubles do, with a bare object holding the response
AxiosOutcomes ==
  { Resolved(AxiosResponse(200, <<"OK">>, RpcResult)) }
    \cup { RejectedWith(Obj(<<Entry("message", Str(m))>>)) : m \in {<<"Network Error">>, <<>>} }
    \cup { RejectedWith(Obj(<<Entry("message", Str(<<"Request failed with status code 429">>)),
                              Entry("response", AxiosResponse(429, <<"Too Many Requests">>, d))>>)) :
             d \in ErrorDatas }
    \cup { RejectedWith(Obj(<<Entry("response", AxiosResponse(400, <<"Bad Request">>, d))>>)) :
             d \in {Obj(<<Entry("error", Str(<<"Invalid request">>))>>), Undefined} }

\* a catch that chains its fallbacks with || where the code has ??
RpcCallError_Or(error) ==
  LET response == Get(error, "response")
      data == Get(response, "data")
  IN Envelope(
       Or(Get(Get(data, "error"), "message"),
         Or(Get(data, "message"),
           Or(Get(response, "statusText"),
             Or(Get(error, "message"), Str(<<"RPC call failed">>))))),
       Or(Get(response, "status"), Num(0)),
       Or(Get(response, "statusText"), Str(<<"Error">>)),
       Undefined)

\* the catch of executeRpcCall
RpcCallError(error) ==
  LET response == Get(error, "response")
      data == Get(response, "data")
  IN Envelope(
       Coalesce(Get(Get(data, "error"), "message"),
         Coalesce(Get(data, "message"),
           Coalesce(Get(response, "statusText"),
             Coalesce(Get(error, "message"), Str(<<"RPC call failed">>))))),
       Coalesce(Get(response, "status"), Num(0)),
       Coalesce(Get(response, "statusText"), Str(<<"Error">>)),
       Undefined)

\* TatumApiClient.executeRpcCall, over the configuration's override table and
\* bundled catalog
\* a client that posts once more after a post that was rejected
Dispatched_Retry(request, out) ==
  IF out.kind = "resolve" THEN <<request>> ELSE <<request, request>>

\* the requests of one call: the single client.post, whose rejection goes
\* straight to the catch
Dispatched(request, out) == <<request>>

executeRpcCall(overrides, gateways, chain, method, params, out) ==
  IF chain = <<>> \/ method = <<>>
  THEN Did(<<>>, Return(Envelope(Str(<<"Chain and method are required">>), Num(400),
                                 Str(<<"Bad Request">>), Undefined)))
  ELSE LET gatewayUrl == ConfigGetGatewayUrl(overrides, gateways, chain)
           headers == RpcCallHeaders(hasCustomRpcUrl(overrides, chain))
       IN IF ~Truthy(gatewayUrl)
          THEN Did(<<>>, Return(Envelope(Str(<<"Gateway URL not found for chain: ">> \o chain),
                                         Num(400), Str(<<"Bad Request">>), Undefined)))
          ELSE Did(Dispatched(Request(<<"POST">>, gatewayUrl.v,
                                      WireHeaders(ClientDefaultHeaders, headers),
                                      RpcBody(method, params)), out),
                   Return(IF out.kind = "resolve"
                          THEN Envelope(Undefined, Get(out.response, "status"),
                                        Get(out.response, "statusText"),
                                        Get(out.response, "data"))
                          ELSE RpcCallError(out.error)))

\* --------------------------------------- TatumApiClient.executeRequest
\* encodeURIComponent, token by token
EncodeComponentToken(tok) ==
  CASE tok = " " -> "%20"
    [] tok = "/" -> "%2F"
    [] tok = "{" -> "%7B"
    [] tok = "}" -> "%7D"
    [] tok = "api/v0" -> "api%2Fv0"
    [] OTHER -> tok
EncodeComponent(s) == [i \in 1..Len(s) |-> EncodeComponentToken(s[i])]

\* url.replace(new RegExp(pattern, 'g'), by)
RECURSIVE ReplaceAll(_, _, _)
ReplaceAll(s, pattern, by) ==
  IF s = <<>> THEN <<>>
  ELSE IF StartsWith(s, pattern)
       THEN by \o ReplaceAll(SubSeq(s, Len(pattern) + 1, Len(s)), pattern, by)
       ELSE <<Head(s)>> \o ReplaceAll(Tail(s), pattern, by)

\* `{${key}}`
Placeholder(key) == <<"{">> \o key \o <<"}">>

\* buildUrl, first loop: the URL after the placeholders of the first n keys
RECURSIVE Substituted(_, _, _)
Substituted(path, entries, n) ==
  IF n = 0 THEN path
  ELSE LET url == Substituted(path, entries, n - 1)
       IN IF Includes(url, Placeholder(entries[n].k))
          THEN ReplaceAll(url, Placeholder(entries[n].k),
                          EncodeComponent(ToStr(entries[n].v)))
          ELSE url

\* a second loop that does not look at usedParams
RECURSIVE QueryParams_All(_, _, _)
QueryParams_All(path, entries, n) ==
  IF n > Len(entries) THEN <<>>
  ELSE LET rest == QueryParams_All(path, entries, n + 1)
       IN IF entries[n].v # Undefined /\ entries[n].v # Null
          THEN <<EncodeComponent(entries[n].k) \o <<"=">> \o EncodeComponent(ToStr(entries[n].v))>>
                 \o rest
          ELSE rest

\* buildUrl, second loop: key=value of the entries from n on that filled no
\* placeholder and hold a value
RECURSIVE QueryParams(_, _, _)
QueryParams(path, entries, n) ==
  IF n > Len(entries) THEN <<>>
  ELSE LET used == Includes(Substituted(path, entries, n - 1), Placeholder(entries[n].k))
           rest == QueryParams(path, entries, n + 1)
       IN IF ~used /\ entries[n].v # Undefined /\ entries[n].v # Null
          THEN <<EncodeComponent(entries[n].k) \o <<"=">> \o EncodeComponent(ToStr(entries[n].v))>>
                 \o rest
          ELSE rest

\* queryParams.join('&')
RECURSIVE Join(_, _)
Join(parts, sep) ==
  IF parts = <<>> THEN <<>>
  ELSE IF Len(parts) = 1 THEN parts[1]
  ELSE parts[1] \o sep \o Join(Tail(parts), sep)

\* TatumApiClient.buildUrl
buildUrl(path, parameters) ==
  LET entries ==
        IF Includes(path, Placeholder(<<"xApiKey">>)) /\ ~Truthy(Get(parameters, <<"xApiKey">>))
        THEN IF HasKey(parameters, <<"xApiKey">>)
             THEN [i \in 1..Len(parameters.e) |->
                     IF parameters.e[i].k = <<"xApiKey">>
                     THEN Entry(<<"xApiKey">>, Str(ApiKey)) ELSE parameters.e[i]]
             ELSE Append(parameters.e, Entry(<<"xApiKey">>, Str(ApiKey)))
        ELSE parameters.e
      url == Substituted(path, entries, Len(entries))
      queryParams == QueryParams(path, entries, 1)
  IN IF queryParams # <<>>
     THEN url \o (IF Includes(url, <<"?">>) THEN <<"&">> ELSE <<"?">>) \o Join(queryParams, <<"&">>)
     ELSE url

\* context.baseUrl
ApiBaseUrl == <<"https://api.tatum.io">>

validMethods == {<<"GET">>, <<"POST">>, <<"PUT">>, <<"DELETE">>, <<"PATCH">>}

\* a check that looks at the method alone
ValidRequest_MethodOnly(method, path) == method # <<>>

\* !(!method || !path || !validMethods.includes(method.toUpperCase()))
ValidRequest(method, path) ==
  method # <<>> /\ path # <<>> /\ ToUpperCase(method) \in validMethods

\* the catch of TatumApiClient.executeRequest
RequestError(error) ==
  LET response == Get(error, "response")
  IN Envelope(
       Coalesce(Get(Get(response, "data"), "message"),
         Coalesce(Get(response, "statusText"),
           Coalesce(Get(error, "message"), Str(<<"Request failed">>)))),
       Coalesce(Get(response, "status"), Num(0)),
       Coalesce(Get(response, "statusText"), Str(<<"Error">>)),
       Undefined)

\* TatumApiClient.executeRequest
clientExecuteRequest(method, path, parameters, out) ==
  IF ~ValidRequest(method, path)
  THEN Did(<<>>, Return(Envelope(Str(<<"Invalid method or path">>), Num(400),
                                 Str(<<"Bad Request">>), Undefined)))
  ELSE Did(<<Request(ToUpperCase(method), ApiBaseUrl \o buildUrl(path, parameters),
                     ClientDefaultHeaders,
                     IF ToUpperCase(method) \in {<<"POST">>, <<"PUT">>}
                     THEN JsonText(parameters) ELSE Undefined)>>,
           Return(IF out.kind = "resolve"
                  THEN Envelope(Undefined, Get(out.response, "status"),
                                Get(out.response, "statusText"),
                                Get(out.response, "data"))
                  ELSE RequestError(out.error)))

\* ------------------------------------------------------ TatumMCPServer
GatewayPrefix == "gateway_"
GatewayGetSupportedChains == <<GatewayPrefix, "get_supported_chains">>
GatewayGetUrl == <<GatewayPrefix, "get_url">>
GatewayGetSupportedMethods == <<GatewayPrefix, "get_supported_methods">>
GatewayExecuteRpc == <<GatewayPrefix, "execute_rpc">>
CheckMaliciousAddress == <<"check_malicious_address">>

\* the names of DATA_TOOLS that the model carries
DataTools == {CheckMaliciousAddress}

McpError(message) == Error(message)

\* reading a property of undefined
TypeError(property) ==
  Error(<<"Cannot read properties of undefined (reading '", property, "')">>)

\* an envelope as the JavaScript object it is
EnvelopeObj(envelope) ==
  Obj(<<Entry("error", envelope.error), Entry("status", envelope.status),
        Entry("statusText", envelope.statusText), Entry("data", envelope.data)>>)

\* TatumMCPServer.buildResponse
buildResponse(responseObj) ==
  [content |-> <<[type |-> "text", text |-> JsonText(responseObj)]>>]

\* TatumMCPServer.formatResponseData
formatResponseData(data) ==
  IF ~Truthy(data) THEN Null
  ELSE IF data.t = "str" THEN data ELSE Str(<<JsonText(data)>>)

\* the response of a gateway tool that returned
GatewaySuccess(result) ==
  buildResponse(Obj(<<Entry("success", Bool(TRUE)), Entry("data", formatResponseData(result)),
                      Entry("error", Null), Entry("status", Num(200)),
                      Entry("endpoint", Null)>>))

\* the response of a data tool
DataResponse(result) ==
  buildResponse(Obj(<<Entry("success", Bool(~Truthy(result.error))),
                      Entry("data", formatResponseData(result.data)),
                      Entry("error", result.error), Entry("status", result.status),
                      Entry("endpoint", Null)>>))

\* the response built in the catch of the handler
FailureResponse(error) ==
  buildResponse(Obj(<<Entry("success", Bool(FALSE)), Entry("data", Null),
                      Entry("error", Get(error, "message")), Entry("status", Num(500))>>))

\* the end of a server call: the server's gateway service and what was done
ServerEnd(has, svc, cache, did) == [has |-> has, svc |-> svc, cache |-> cache, did |-> did]

\* TatumMCPServer.executeGatewayTool of src/index.ts
executeGatewayTool(has, svc, cache, name, args, catalog, out) ==
  LET svc0 == IF has THEN svc ELSE Service(<<>>, <<>>, FALSE)
      cache0 == IF has THEN cache ELSE EmptyMap
      started == IF has THEN [svc |-> svc0, res |-> Return(Undefined)]
                 ELSE initialize(svc0, catalog)
      End(s, c, did) == ServerEnd(TRUE, s, c, did)
      chain == Get(args, <<"chain">>)
      method == Get(args, <<"method">>)
      resolved == getGatewayUrl(started.svc, chain.v, catalog)
      NotFound == McpError(<<"Gateway URL not found for chain: ">> \o chain.v)
  IN IF started.res.threw THEN End(started.svc, cache0, Did(<<>>, started.res))
     ELSE IF name = GatewayGetSupportedChains
     THEN LET chains == getSupportedChains(started.svc, catalog)
          IN End(chains.svc, cache0, Did(<<>>, chains.res))
     ELSE IF name = GatewayGetSupportedMethods
     THEN IF args = Undefined
          THEN End(started.svc, cache0, Did(<<>>, Throw(TypeError("chain"))))
          ELSE IF ~Truthy(chain)
          THEN End(started.svc, cache0,
                   Did(<<>>, Throw(McpError(<<"Missing required parameter: chain">>))))
          ELSE IF resolved.res.threw THEN End(resolved.svc, cache0, Did(<<>>, resolved.res))
          ELSE IF ~Truthy(resolved.res.v)
          THEN End(resolved.svc, cache0, Did(<<>>, Throw(NotFound)))
          ELSE LET methods == getAvailableMethods(cache0, resolved.res.v.v, out)
               IN End(resolved.svc, methods.cache, methods.did)
     ELSE IF name = GatewayExecuteRpc
     THEN IF args = Undefined
          THEN End(started.svc, cache0, Did(<<>>, Throw(TypeError("chain"))))
          ELSE IF ~Truthy(chain) \/ ~Truthy(method)
          THEN End(started.svc, cache0,
                   Did(<<>>, Throw(McpError(<<"Missing required parameters: chain, method">>))))
          ELSE IF resolved.res.threw THEN End(resolved.svc, cache0, Did(<<>>, resolved.res))
          ELSE IF ~Truthy(resolved.res.v)
          THEN End(resolved.svc, cache0, Did(<<>>, Throw(NotFound)))
          ELSE LET done == executeRequest(resolved.res.v.v, method.v,
                                          Or(Get(args, <<"params">>), Arr(<<>>)).a, out)
               IN End(resolved.svc, cache0, Did(done.sent, Return(EnvelopeObj(done.res.v))))
     ELSE End(started.svc, cache0,
              Did(<<>>, Throw(McpError(<<"Unknown gateway tool: ">> \o name))))

\* TatumMCPServer.executeDataTool with DataService.checkMaliciousAddress
executeDataTool(name, args, out) ==
  IF name = CheckMaliciousAddress
  THEN IF args = Undefined THEN Did(<<>>, Throw(TypeError("address")))
       ELSE IF ~Truthy(Get(args, <<"address">>))
       THEN Did(<<>>, Throw(McpError(<<"Missing required parameter: address">>)))
       ELSE clientExecuteRequest(<<"GET">>, <<"/v3/security/address/", "{", "address", "}">>,
                                 Obj(<<Entry(<<"address">>, Get(args, <<"address">>))>>), out)
  ELSE Did(<<>>, Throw(McpError(<<"Unknown data tool: ">> \o name)))

\* the CallTool handler of src/index.ts: everything runs inside one try whose
\* catch builds the failure response
callTool(has, svc, cache, name, args, catalog, out) ==
  IF StartsWith(name, <<GatewayPrefix>>)
  THEN LET end == executeGatewayTool(has, svc, cache, name, args, catalog, out)
       IN ServerEnd(end.has, end.svc, end.cache,
                    Did(end.did.sent,
                        Return(IF end.did.res.threw THEN FailureResponse(end.did.res.v)
                               ELSE GatewaySuccess(end.did.res.v))))
  ELSE IF name \in DataTools
  THEN LET did == executeDataTool(name, args, out)
       IN ServerEnd(has, svc, cache,
                    Did(did.sent,
                        Return(IF did.res.threw THEN FailureResponse(did.res.v)
                               ELSE DataResponse(did.res.v))))
  ELSE ServerEnd(has, svc, cache,
                 Did(<<>>, Return(FailureResponse(McpError(<<"Unknown tool: ">> \o name)))))

\* the tool table of the older server: name -> endpoint
LegacyTools ==
  (CheckMaliciousAddress :>
     [method |-> <<"GET">>, path |-> <<"/v3/security/address/", "{", "address", "}">>])

\* executeGatewayTool of the older server, over GatewayTools
legacyExecuteGatewayTool(overrides, gateways, name, args, out) ==
  LET chain == Get(args, <<"chain">>)
      method == Get(args, <<"method">>)
  IN IF name = GatewayGetSupportedChains
     THEN Did(<<>>, Return(Arr(ToolsGetSupportedChains(overrides, gateways))))
     ELSE IF name = GatewayGetUrl
     THEN IF ~Truthy(chain) THEN Did(<<>>, Throw(Error(<<"Chain parameter is required">>)))
          ELSE Did(<<>>, Return(ConfigGetGatewayUrl(overrides, gateways, chain.v)))
     ELSE IF name = GatewayGetSupportedMethods
     THEN IF ~Truthy(chain) THEN Did(<<>>, Throw(Error(<<"Chain parameter is required">>)))
          ELSE Did(<<>>, Return(getSupportedMethods(chain.v)))
     ELSE IF name = GatewayExecuteRpc
     THEN IF ~Truthy(chain) \/ ~Truthy(method)
          THEN Did(<<>>, Throw(Error(<<"Chain and method parameters are required">>)))
          ELSE LET done == executeRpcCall(overrides, gateways, chain.v, method.v,
                                          Coalesce(Get(args, <<"params">>), Arr(<<>>)).a, out)
               IN Did(done.sent, Return(EnvelopeObj(done.res.v)))
     ELSE Did(<<>>, Throw(Error(<<"Unknown gateway tool: ">> \o name)))

\* handleRegularTool of the older server: the lookups throw outside any try
handleRegularTool(name, args, out) ==
  IF name \notin DOMAIN LegacyTools
  THEN Did(<<>>, Throw(McpError(<<"Tool ">> \o name \o <<" not found">>)))
  ELSE LET endpoint == LegacyTools[name]
           did == clientExecuteRequest(endpoint.method, endpoint.path,
                                       Coalesce(args, Obj(<<>>)), out)
       IN Did(did.sent, Return(DataResponse(did.res.v)))

\* the CallTool handler of the older server
legacyCallTool(overrides, gateways, name, args, out) ==
  IF StartsWith(name, <<GatewayPrefix>>)
  THEN LET did == legacyExecuteGatewayTool(overrides, gateways, name, args, out)
       IN Did(did.sent,
              Return(IF did.res.threw THEN FailureResponse(did.res.v)
                     ELSE GatewaySuccess(did.res.v)))
  ELSE handleRegularTool(name, args, out)

\* ---------------------------------------------------- state, continued
vars == <<byoRpcUrls, gatewayFeature, gatewayService, cachedGateways, cachedChains, dataFetched, methodsCache,
          op, sent, ret, nsent, pc, fetches>>

config == <<byoRpcUrls, gatewayFeature>>
server == <<gatewayService>>
calls == <<pc, fetches>>
service == <<cachedGateways, cachedChains, dataFetched, methodsCache>>

Svc == Service(cachedGateways, cachedChains, dataFetched)

Call(name, chain, url, method, params, out) ==
  [name |-> name, chain |-> chain, url |-> url, method |-> method, params |-> params,
   out |-> out]

NoOutcome == [kind |-> "none"]

\* ------------------------------------------------------------- inputs
CallChains ==
  { Chain("ethereum-", "mainnet"), Chain("cardano-", "mainnet"),
    Chain("ripple-", "mainnet"), Chain("xrp-", "mainnet"), Chain("my-", "chain"),
    Chain("unknown-chain-", "xyz"), <<>> }

CallMethods ==
  { <<"eth_blockNumber">>, <<"POST", " ", "/", "blocks">>, <<>> }

\* params: empty, positional, and one keyed mapping (with a null and an undefined value)
ParamsSet ==
  { <<>>,
    <<Str(<<"0xabc">>), Str(<<"latest">>)>>,
    <<Obj(<<Entry(<<"limit">>, Num(10)), Entry(<<"from">>, Null),
            Entry(<<"order">>, Str(<<"a", "/", "b">>)), Entry(<<"to">>, Undefined)>>)>> }

CallUrls == {UrlOf(Chain("ethereum-", "mainnet")), MyNode}

\* arguments of TatumApiClient.executeRequest
ClientMethods == {<<"GET">>, <<"get">>, <<"POST">>, <<"HEAD">>, <<"GET", " ">>, <<>>}
ClientPaths ==
  { <<"/v3/security/address/", "{", "address", "}">>,
    <<"/v4/data/owners", "?", "chain", "=", "{", "chain", "}">>,
    <<>> }
ClientParameters ==
  { Obj(<<>>),
    Obj(<<Entry(<<"address">>, Str(<<"0x", "/", "a b">>)), Entry(<<"chain">>, Str(<<"ethereum-mainnet">>)),
          Entry(<<"pageSize">>, Num(10)), Entry(<<"cursor">>, Null)>>) }
ClientOutcomes ==
  { Resolved(AxiosResponse(200, <<"OK">>, RpcResult)),
    RejectedWith(Obj(<<Entry("message", Str(<<"Network Error">>))>>)),
    RejectedWith(Obj(<<Entry("message", Str(<<"Request failed with status code 429">>)),
                       Entry("response",
                             AxiosResponse(429, <<"Too Many Requests">>,
                                           Obj(<<Entry("message", Str(<<"Slow down">>))>>)))>>)) }

\* tool names and arguments of the CallTool handlers
ToolNames ==
  { GatewayGetSupportedChains, GatewayGetSupportedMethods, GatewayExecuteRpc, GatewayGetUrl,
    <<GatewayPrefix, "no_such_tool">>, CheckMaliciousAddress, <<"no_such_tool">> }
ToolArgs ==
  { Undefined, Obj(<<>>),
    Obj(<<Entry(<<"chain">>, Str(Chain("ethereum-", "mainnet")))>>),
    Obj(<<Entry(<<"chain">>, Str(Chain("ethereum-", "mainnet"))),
          Entry(<<"method">>, Str(<<"eth_blockNumber">>))>>),
    Obj(<<Entry(<<"chain">>, Str(Chain("cardano-", "mainnet"))),
          Entry(<<"method">>, Str(<<"GET", " ", "/", "blocks">>)),
          Entry(<<"params">>, Arr(<<Str(<<"latest">>)>>))>>),
    Obj(<<Entry(<<"chain">>, Str(Chain("unknown-chain-", "xyz"))),
          Entry(<<"method">>, Str(<<"eth_blockNumber">>))>>),
    Obj(<<Entry(<<"address">>, Str(<<"0xabc">>))>>) }
ToolFetchOutcomes ==
  { Rejected(<<"fetch failed">>),
    Response(200, <<"OK">>, ContentJson, BodyResult),
    Response(200, <<"OK">>, ContentJson, BodyMethods(<<"eth_call">>)),
    Response(200, <<"OK">>, ContentHtml, BodyGarbage),
    Response(429, <<"Too Many Requests">>, ContentJson, BodyError) }
\* how the request of a tool can end: data tools and the older server go
\* through axios, the gateway service through fetch
ToolOutcomes(name) ==
  IF StartsWith(name, <<GatewayPrefix>>) THEN ToolFetchOutcomes ELSE ClientOutcomes

\* chain arguments of getSupportedMethods
MethodChains ==
  CallChains \cup {Chain("tron-", "mainnet"), Chain("polygon-", "mainnet"),
                   Chain("bitcoin-", "mainnet"), <<"constructor">>}

\* -------------------------------------------------------------- Init
Init ==
  /\ byoRpcUrls \in {loadByoRpcConfig(env) : env \in ByoRpcEnvs}
  /\ gatewayFeature \in Catalogs
  /\ gatewayService = FALSE
  /\ cachedGateways = <<>>
  /\ cachedChains = <<>>
  /\ dataFetched = FALSE
  /\ methodsCache = EmptyMap
  /\ op = Call("new", <<>>, <<>>, <<>>, <<>>, NoOutcome)
  /\ sent = <<>>
  /\ ret = Return(Undefined)
  /\ nsent = 0
  /\ pc = [c \in 1..NumCallers |-> "ready"]
  /\ fetches = 0

\* ------------------------------------------------------------ actions
\* calls are served one at a time: a call starts when no result is pending
Idle == op.name \in {"new", "idle"}

Record(call, did) ==
  /\ nsent + Len(did.sent) <= MaxSent
  /\ op' = call
  /\ sent' = did.sent
  /\ ret' = did.res
  /\ nsent' = nsent + Len(did.sent)

SetService(svc) ==
  /\ cachedGateways' = svc.cachedGateways
  /\ cachedChains' = svc.cachedChains
  /\ dataFetched' = svc.dataFetched
  /\ UNCHANGED methodsCache

\* GatewayService.initialize()
Initialize(catalog) ==
  /\ Idle
  /\ \E r \in {initialize(Svc, catalog)} :
       /\ SetService(r.svc)
       /\ Record(Call("initialize", <<>>, <<>>, <<>>, <<>>, NoOutcome), Did(<<>>, r.res))
  /\ UNCHANGED <<config, calls, server>>

\* TatumConfig.getGatewayUrl(chain)
GetGatewayUrl(chain) ==
  /\ Idle
  /\ \E url \in {ConfigGetGatewayUrl(byoRpcUrls, gatewayFeature, chain)} :
       Record(Call("getGatewayUrl", chain, <<>>, <<>>, <<>>, NoOutcome), Did(<<>>, Return(url)))
  /\ UNCHANGED <<config, calls, server, service>>

\* GatewayService.executeChainRequest({chainName, method, params})
ExecuteChainRequest(chainName, method, params, catalog, out) ==
  /\ Idle
  /\ \E r \in {executeChainRequest(Svc, chainName, method, params, catalog, out)} :
       /\ SetService(r.svc)
       /\ Record(Call("executeChainRequest", chainName, <<>>, method, params, out), r.did)
  /\ UNCHANGED <<config, calls, server>>

\* GatewayService.executeRequest({gatewayUrl, method, body})
ExecuteRequest(gatewayUrl, method, body, out) ==
  /\ Idle
  /\ \E did \in {executeRequest(gatewayUrl, method, body, out)} :
       Record(Call("executeRequest", <<>>, gatewayUrl, method, body, out), did)
  /\ UNCHANGED <<config, calls, server, service>>

\* TatumApiClient.executeRpcCall(chain, method, params)
ExecuteRpcCall(chain, method, params, out) ==
  /\ Idle
  /\ \E did \in {executeRpcCall(byoRpcUrls, gatewayFeature, chain, method, params, out)} :
       Record(Call("executeRpcCall", chain, <<>>, method, params, out), did)
  /\ UNCHANGED <<config, calls, server, service>>

\* GatewayTools.getSupportedChains()
ToolsSupportedChains ==
  /\ Idle
  /\ \E chains \in {ToolsGetSupportedChains(byoRpcUrls, gatewayFeature)} :
       Record(Call("GatewayTools.getSupportedChains", <<>>, <<>>, <<>>, <<>>, NoOutcome),
              Did(<<>>, Return(Arr(chains))))
  /\ UNCHANGED <<config, calls, server, service>>

\* GatewayService.getSupportedChains()
GetSupportedChains(catalog) ==
  /\ Idle
  /\ \E r \in {getSupportedChains(Svc, catalog)} :
       /\ SetService(r.svc)
       /\ Record(Call("getSupportedChains", <<>>, <<>>, <<>>, <<>>, NoOutcome),
                 Did(<<>>, r.res))
  /\ UNCHANGED <<config, calls, server>>

\* GatewayTools.getSupportedMethods(chain)
GetSupportedMethods(chain) ==
  /\ Idle
  /\ Record(Call("getSupportedMethods", chain, <<>>, <<>>, <<>>, NoOutcome),
            Did(<<>>, Return(getSupportedMethods(chain))))
  /\ UNCHANGED <<config, calls, server, service>>

\* GatewayService.getAvailableMethods(gatewayUrl)
GetAvailableMethods(gatewayUrl, out) ==
  /\ Idle
  /\ \E r \in {getAvailableMethods(methodsCache, gatewayUrl, out)} :
       /\ methodsCache' = r.cache
       /\ Record(Call("getAvailableMethods", <<>>, gatewayUrl, <<>>, <<>>, out), r.did)
  /\ UNCHANGED <<config, calls, server, cachedGateways, cachedChains, dataFetched>>

\* TatumApiClient.executeRequest(method, path, parameters)
ClientExecuteRequest(method, path, parameters, out) ==
  /\ Idle
  /\ \E did \in {clientExecuteRequest(method, path, parameters, out)} :
       Record(Call("TatumApiClient.executeRequest", <<>>, path, method, parameters, out), did)
  /\ UNCHANGED <<config, calls, server, service>>

\* the CallTool handler of src/index.ts
CallTool(name, args, catalog, out) ==
  /\ Idle
  /\ \E end \in {callTool(gatewayService, Svc, methodsCache, name, args, catalog, out)} :
       /\ gatewayService' = end.has
       /\ cachedGateways' = end.svc.cachedGateways
       /\ cachedChains' = end.svc.cachedChains
       /\ dataFetched' = end.svc.dataFetched
       /\ methodsCache' = end.cache
       /\ Record(Call("CallTool", <<>>, <<>>, name, args, out), end.did)
  /\ UNCHANGED <<config, calls>>

\* the CallTool handler of the older server
CallToolLegacy(name, args, out) ==
  /\ Idle
  /\ \E did \in {legacyCallTool(byoRpcUrls, gatewayFeature, name, args, out)} :
       Record(Call("CallTool (older server)", <<>>, <<>>, name, args, out), did)
  /\ UNCHANGED <<config, calls, server, service>>

\* the caller has taken the result of the last call
Settle ==
  /\ ~Idle
  /\ op' = Call("idle", <<>>, <<>>, <<>>, <<>>, NoOutcome)
  /\ sent' = <<>>
  /\ ret' = Return(Undefined)
  /\ UNCHANGED <<config, calls, server, service, nsent>>

\* the catalog fetch a call can meet: none once the catalog is marked loaded
CatalogFetches == IF dataFetched THEN {CatalogFailed(<<"not fetched">>)} ELSE CatalogOutcomes

Next ==
  \/ Settle
  \/ Idle /\ \E catalog \in CatalogFetches : Initialize(catalog)
  \/ Idle /\ \E chain \in CallChains : GetGatewayUrl(chain)
  \/ ToolsSupportedChains
  \/ Idle /\ \E method \in ClientMethods, path \in ClientPaths,
               parameters \in ClientParameters, out \in ClientOutcomes :
                 ClientExecuteRequest(method, path, parameters, out)
  \/ Idle /\ \E chain \in MethodChains : GetSupportedMethods(chain)
  \/ Idle /\ \E url \in CallUrls, out \in MethodsOutcomes : GetAvailableMethods(url, out)
  \/ Idle /\ \E catalog \in CatalogFetches : GetSupportedChains(catalog)
  \/ Idle /\ \E chain \in CallChains, method \in CallMethods, params \in ParamsSet,
               catalog \in CatalogFetches, out \in FetchOutcomes :
                 ExecuteChainRequest(chain, method, params, catalog, out)
  \/ Idle /\ \E url \in CallUrls, method \in CallMethods, body \in ParamsSet,
               out \in FetchOutcomes :
                 ExecuteRequest(url, method, body, out)
  \/ Idle /\ \E chain \in CallChains, method \in CallMethods, params \in ParamsSet,
               out \in AxiosOutcomes :
                 ExecuteRpcCall(chain, method, params, out)

Spec == Init /\ [][Next]_vars

\* ------------------------------------------------ the server's handlers
NextTools ==
  \/ Settle
  \/ Idle /\ \E name \in ToolNames, args \in ToolArgs, catalog \in CatalogFetches :
               \E out \in ToolOutcomes(name) : CallTool(name, args, catalog, out)
  \/ Idle /\ \E name \in ToolNames, args \in ToolArgs, out \in ClientOutcomes :
               CallToolLegacy(name, args, out)

SpecTools == Init /\ [][NextTools]_vars

\* ------------------------------------- override-parsing specification
\* The construction of TatumConfig for every BYO_RPC_CONFIG text of at most
\* MaxPairs pairs.  A pair is written as its chain, a comma and its URL; it may
\* lack the chain, the URL or the comma, and may carry blanks around its parts.
Pair(chain, url, comma, blanks) ==
  [chain |-> chain, url |-> url, comma |-> comma, blanks |-> blanks]

PairSet ==
  { Pair(Chain("ethereum-", "mainnet"), MyNode, TRUE, FALSE),
    Pair(Chain("ethereum-", "mainnet"), MyChainUrl, TRUE, TRUE),
    Pair(Chain("my-", "chain"), MyXrp, TRUE, FALSE),
    Pair(Chain("ethereum-", "mainnet"), <<>>, TRUE, FALSE),
    Pair(<<>>, MyNode, TRUE, TRUE),
    Pair(Chain("my-", "chain"), <<>>, FALSE, FALSE),
    Pair(<<>>, <<>>, FALSE, TRUE) }

PairLists == UNION {[1..n -> PairSet] : n \in 0..MaxPairs}

\* the text of one pair
PairText(pair) ==
  LET blank == IF pair.blanks THEN <<" ">> ELSE <<>>
  IN blank \o pair.chain \o blank \o (IF pair.comma THEN <<",">> ELSE <<>>)
       \o blank \o pair.url \o blank

\* process.env.BYO_RPC_CONFIG for a list of pairs
EnvText(pairs) == Str(Join([i \in 1..Len(pairs) |-> PairText(pairs[i])], <<";">>))

\* the constructor of TatumConfig reads BYO_RPC_CONFIG into byoRpcUrls
LoadByoRpcConfig(pairs) ==
  /\ op.name = "new"
  /\ byoRpcUrls' = loadByoRpcConfig(EnvText(pairs))
  /\ Record(Call("loadByoRpcConfig", <<>>, <<>>, <<>>, pairs, NoOutcome),
            Did(<<>>, Return(Undefined)))
  /\ UNCHANGED <<gatewayFeature, calls, server, service>>

InitParse == Init /\ byoRpcUrls = EmptyMap /\ gatewayFeature = CatalogA

NextParse == \E pairs \in PairLists : LoadByoRpcConfig(pairs)

SpecParse == InitParse /\ [][NextParse]_vars

\* ------------------------------------------ concurrent gateway calls
\* NumCallers gateway tool calls run on the server of src/index.ts, each
\* suspended at the await of the catalog fetch it has started.  A call first
\* creates the service and awaits initialize() when the server has none,
\* then its tool awaits ensureDataLoaded().
Callers == 1..NumCallers

\* the fetch of blockchains.json as each call can see it end
ConcCatalogs == CatalogOutcomes \cup {CatalogLoaded(CatalogB)}

\* initialize() and ensureDataLoaded() up to their await: the call returns at
\* once when dataFetched is set, else it starts a fetch and is suspended at `at`
BeginFetch(c, at) ==
  IF dataFetched
  THEN /\ pc' = [pc EXCEPT ![c] = "done"]
       /\ UNCHANGED fetches
  ELSE /\ fetches < MaxFetches
       /\ pc' = [pc EXCEPT ![c] = at]
       /\ fetches' = fetches + 1

\* executeGatewayTool up to its first await
Start(c) ==
  /\ pc[c] = "ready"
  /\ gatewayService' = TRUE
  /\ IF ~gatewayService THEN BeginFetch(c, "initialize") ELSE BeginFetch(c, "ensureDataLoaded")
  /\ UNCHANGED <<config, service, op, sent, ret, nsent>>

\* the fetch that call c awaits has ended: the rest of initialize() runs, then
\* the rest of the call (whose ensureDataLoaded finds dataFetched set)
FetchDone(c, catalog) ==
  /\ pc[c] \in {"initialize", "ensureDataLoaded"}
  /\ \E r \in {initialize(Service(cachedGateways, cachedChains, FALSE), catalog)} :
       /\ SetService(r.svc)
       /\ op' = Call("initialize", <<>>, <<>>, <<>>, <<>>, NoOutcome)
       /\ ret' = r.res
  /\ pc' = [pc EXCEPT ![c] = "done"]
  /\ UNCHANGED <<config, server, fetches, sent, nsent>>

\* the client sends another gateway call
Again(c) ==
  /\ pc[c] = "done"
  /\ pc' = [pc EXCEPT ![c] = "ready"]
  /\ UNCHANGED <<config, server, service, fetches, op, sent, ret, nsent>>

NextConc ==
  \/ \E c \in Callers : Start(c)
  \/ \E c \in Callers, catalog \in ConcCatalogs : FetchDone(c, catalog)
  \/ \E c \in Callers : Again(c)

SpecConc == Init /\ [][NextConc]_vars

\* --------------------------------- concurrent getAvailableMethods calls
\* NumCallers calls of getAvailableMethods(MethodsUrl), each suspended at the
\* await of the fetch it has started after missing the cache.
MethodsUrl == UrlOf(Chain("ethereum-", "mainnet"))

\* a service whose failing fetch drops what the cache holds for the URL
Written_DropOnFailure(cache, gatewayUrl, fetched) ==
  IF MapHas(fetched, gatewayUrl) THEN MapSet(cache, gatewayUrl, fetched[gatewayUrl])
  ELSE [url \in DOMAIN cache \ {gatewayUrl} |-> cache[url]]

\* the cache after the rest of getAvailableMethods has run: the set at the end
\* of the try writes what this call fetched, a failed fetch writes nothing
Written(cache, gatewayUrl, fetched) ==
  IF MapHas(fetched, gatewayUrl) THEN MapSet(cache, gatewayUrl, fetched[gatewayUrl])
  ELSE cache

\* getAvailableMethods up to its await
MethodsStart(c) ==
  /\ pc[c] = "ready"
  /\ IF CacheHit(methodsCache, MethodsUrl)
     THEN /\ pc' = [pc EXCEPT ![c] = "done"]
          /\ op' = Call("getAvailableMethods", <<>>, MethodsUrl, <<>>, <<>>, NoOutcome)
          /\ sent' = <<>>
          /\ ret' = Return(methodsCache[MethodsUrl])
          /\ UNCHANGED nsent
     ELSE /\ nsent < MaxFetches
          /\ pc' = [pc EXCEPT ![c] = "getAvailableMethods"]
          /\ nsent' = nsent + 1
          /\ UNCHANGED <<op, sent, ret>>
  /\ UNCHANGED <<config, server, service, fetches>>

\* the fetch that call c awaits has ended with out: the rest of the call runs
MethodsDone(c, out) ==
  /\ pc[c] = "getAvailableMethods"
  /\ \E r \in {getAvailableMethods(EmptyMap, MethodsUrl, out)} :
       /\ methodsCache' = Written(methodsCache, MethodsUrl, r.cache)
       /\ op' = Call("getAvailableMethods", <<>>, MethodsUrl, <<>>, <<>>, out)
       /\ sent' = r.did.sent
       /\ ret' = r.did.res
  /\ pc' = [pc EXCEPT ![c] = "done"]
  /\ UNCHANGED <<config, server, cachedGateways, cachedChains, dataFetched, fetches, nsent>>

\* the caller asks again
MethodsAgain(c) ==
  /\ pc[c] = "done"
  /\ pc' = [pc EXCEPT ![c] = "ready"]
  /\ UNCHANGED <<config, server, service, fetches, op, sent, ret, nsent>>

NextMethods ==
  \/ \E c \in Callers : MethodsStart(c)
  \/ \E c \in Callers, out \in MethodsOutcomes : MethodsDone(c, out)
  \/ \E c \in Callers : MethodsAgain(c)

SpecMethods == Init /\ [][NextMethods]_vars

\* ------------------------------------------- resolver specification
\* The calls that list and resolve chain names, on TatumConfig (override table
\* and bundled catalog) and on the fetching GatewayService, for every name of
\* both catalogs.
ResolveChains ==
  CatalogNames(CatalogA) \cup CatalogNames(CatalogB)
    \cup {Chain("my-", "chain"), Chain("unknown-chain-", "xyz"), <<>>}

\* the catalog fetch a call can meet: none once the catalog is marked loaded
ResolveFetches == IF dataFetched THEN {CatalogFailed(<<"not fetched">>)} ELSE ConcCatalogs

\* GatewayService.getGatewayUrl(chainName) of the fetching service
ServiceGetGatewayUrl(chainName, catalog) ==
  /\ Idle
  /\ \E r \in {getGatewayUrl(Svc, chainName, catalog)} :
       /\ SetService(r.svc)
       /\ Record(Call("GatewayService.getGatewayUrl", chainName, <<>>, <<>>, <<>>, NoOutcome),
                 Did(<<>>, r.res))
  /\ UNCHANGED <<config, calls, server>>

NextResolve ==
  \/ Settle
  \/ Idle /\ \E catalog \in ResolveFetches : Initialize(catalog)
  \/ Idle /\ \E chain \in ResolveChains : GetGatewayUrl(chain)
  \/ Idle /\ \E chain \in ResolveChains, catalog \in ResolveFetches :
               ServiceGetGatewayUrl(chain, catalog)
  \/ ToolsSupportedChains
  \/ Idle /\ \E catalog \in ResolveFetches : GetSupportedChains(catalog)

SpecResolve == Init /\ [][NextResolve]_vars

\* ------------------------------------------- request-building specification
\* One executeChainRequest call on a fresh service whose catalog lists every
\* registered REST chain, for every method string of at most MaxMethodLen tokens.
MethodTokens == {"GET", "POST", " ", "/", "api/v0", "v1", "chainweb", "blocks"}

BuildMethods == UNION {[1..n -> MethodTokens] : n \in 0..MaxMethodLen}

BuildChains ==
  RestChains \cup {Chain("ethereum-", "mainnet"), Chain("ripple-", "mainnet")}

BuildParams ==
  { <<>>, <<Obj(<<Entry(<<"limit">>, Num(10)), Entry(<<"from">>, Null)>>)>> }

InitBuild == Init /\ byoRpcUrls = EmptyMap /\ gatewayFeature = CatalogA

NextBuild ==
  /\ Idle
  /\ \E chain \in BuildChains, method \in BuildMethods, params \in BuildParams :
       ExecuteChainRequest(chain, method, params, CatalogLoaded(CatalogFull),
                           Response(200, <<"OK">>, ContentJson, BodyResult))

SpecBuild == InitBuild /\ [][NextBuild]_vars

\* =============================================================== claims
\* the catalog the last call resolved its chain against
VendorCatalog ==
  IF op.name \in {"getGatewayUrl", "executeRpcCall", "GatewayTools.getSupportedChains"}
  THEN gatewayFeature ELSE cachedGateways

\* the gateway URL the last call resolved
ResolvedUrl ==
  IF op.name = "executeRequest" THEN op.url
  ELSE IF op.name = "executeRpcCall"
       THEN IF MapHas(byoRpcUrls, op.chain) THEN byoRpcUrls[op.chain]
            ELSE CatalogGatewayUrl(gatewayFeature, op.chain).v
       ELSE CatalogGatewayUrl(cachedGateways, op.chain).v

IsRpcEnvelope(request) == request.body.t = "json" /\ request.body.v.t = "rpc"

\* a request to a path under the gateway URL that carries no JSON-RPC envelope
IsRestRequest(request) == StartsWith(request.url, ResolvedUrl) /\ ~IsRpcEnvelope(request)

\* C1: when executeRpcCall is invoked for a chain that has an override entry,
\* no request it puts on the network carries an X-API-Key header.
C1_NoApiKeyToOverride ==
  (op.name = "executeRpcCall" /\ hasCustomRpcUrl(byoRpcUrls, op.chain))
    => \A i \in 1..Len(sent) : "X-API-Key" \notin DOMAIN sent[i].headers

\* C2: getGatewayUrl returns the override URL of every chain whose override
\* entry has a URL, whatever the catalog lists under that name.
C2_OverridePrecedence ==
  (op.name = "getGatewayUrl" /\ MapHas(byoRpcUrls, op.chain) /\ byoRpcUrls[op.chain] # <<>>)
    => ret = Return(Str(byoRpcUrls[op.chain]))

C2_Witness ==
  /\ op.name = "getGatewayUrl"
  /\ MapHas(byoRpcUrls, op.chain)
  /\ op.chain \in CatalogNames(gatewayFeature)
  /\ ret = Return(Str(byoRpcUrls[op.chain]))
  /\ ret # Return(CatalogGatewayUrl(gatewayFeature, op.chain))

\* C3: executeChainRequest and executeRequest never raise: whatever the catalog
\* fetch and the gateway answer, they return an envelope whose status is an integer.
C3_NeverRaises ==
  op.name \in {"executeChainRequest", "executeRequest"}
    => /\ ~ret.threw
       /\ ret.v.status.t = "num"
       /\ ret.v.status.n \in Int

C3_Witness ==
  /\ op.name = "executeChainRequest"
  /\ ~ret.threw
  /\ ret.v.status = Num(500)
  /\ StartsWith(ret.v.error.v, <<"Failed to initialize GatewayService: ">>)

\* C4: on every execution entry point, a named chain found in neither the
\* override table nor the (loaded) vendor catalog gets an envelope with status
\* 404 and an error.
C4_UnresolvedIs404 ==
  (/\ op.name \in {"executeChainRequest", "executeRpcCall"}
   /\ op.chain # <<>> /\ op.method # <<>>
   /\ VendorCatalog # <<>>
   /\ ~MapHas(byoRpcUrls, op.chain)
   /\ op.chain \notin CatalogNames(VendorCatalog))
    => /\ ~ret.threw
       /\ ret.v.status = Num(404)
       /\ Truthy(ret.v.error)

C6_UnregisteredSniffsMethod ==
  (/\ op.name \in {"executeChainRequest", "executeRequest"}
   /\ getChainProtocol(op.chain) = "undefined"
   /\ Len(sent) = 1)
    => IF Includes(op.method, <<" ">>)
       THEN /\ ~IsRpcEnvelope(sent[1])
            /\ sent[1].verb = ToUpperCase(SplitFirst(op.method))
            /\ StartsWith(sent[1].url, ResolvedUrl \o SplitSecond(op.method))
       ELSE /\ IsRpcEnvelope(sent[1])
            /\ sent[1].body.v.method = op.method

\* a method name with no space that does not begin with an HTTP verb
BareMethod(method) ==
  /\ ~Includes(method, <<" ">>)
  /\ ~StartsWith(method, <<"GET">>)
  /\ ~StartsWith(method, <<"POST">>)

\* C7: for a bare method name on a registered REST chain the request is a GET,
\* and its path begins with the chain's basePathPrefix when it has one.
C7_BareMethodIsPrefixedGet ==
  (/\ op.name = "executeChainRequest"
   /\ op.chain \in RestChains
   /\ op.chain \in CatalogNames(cachedGateways)
   /\ BareMethod(op.method))
    => /\ Len(sent) = 1
       /\ sent[1].verb = <<"GET">>
       /\ Truthy(getChainApiConfig(op.chain).basePathPrefix)
            => StartsWith(sent[1].url,
                          ResolvedUrl \o getChainApiConfig(op.chain).basePathPrefix.v)

C7_Witness ==
  /\ op.name = "executeChainRequest"
  /\ op.chain = Chain("cardano-", "mainnet")
  /\ op.method = <<"v1", "api/v0">>
  /\ op.params = <<>>
  /\ Len(sent) = 1
  /\ sent[1].verb = <<"GET">>
  /\ sent[1].url = ResolvedUrl \o <<"/", "api/v0", "/", "v1", "api/v0">>

\* C8: every JSON-RPC request is a POST to the resolved gateway URL whose body
\* is exactly {jsonrpc: '2.0', id: 1, method, params} with the caller's method
\* and params; the id is 1 on every call.  executeRpcCall sends nothing else.
C8_JsonRpcBody ==
  \A i \in 1..Len(sent) :
    /\ op.name = "executeRpcCall" => IsRpcEnvelope(sent[i])
    /\ IsRpcEnvelope(sent[i])
         => /\ sent[i].verb = <<"POST">>
            /\ sent[i].url = ResolvedUrl
            /\ sent[i].body = JsonText([t |-> "rpc", jsonrpc |-> "2.0", id |-> 1,
                                        method |-> op.method, params |-> op.params])

C8_Witness ==
  /\ nsent = 2
  /\ Len(sent) = 1
  /\ IsRpcEnvelope(sent[1])
  /\ sent[1].body.v.id = 1
  /\ op.params # <<>>

\* the error the claim expects of a parsed non-2xx body
ExpectedError(data, status, statusText) ==
  IF Truthy(Get(data, "message")) THEN Get(data, "message")
  ELSE IF Truthy(Get(data, "error")) THEN Get(data, "error")
  ELSE Str(<<"HTTP ", ToString(status), ": ">> \o statusText)

\* C9: on the REST and on the JSON-RPC path alike, a non-2xx answer with a JSON
\* body comes back as an envelope whose error is the body's message, else its
\* error, else 'HTTP <status>: <statusText>', whose status is the remote status
\* and whose data is the parsed body.
C9_NonOkEnvelope ==
  (/\ op.name \in {"executeChainRequest", "executeRequest"}
   /\ Len(sent) = 1
   /\ op.out.kind = "response"
   /\ ~Ok(op.out)
   /\ op.out.contentType = ContentJson
   /\ op.out.body.parsed # Invalid)
    => /\ ~ret.threw
       /\ ret.v.error = ExpectedError(op.out.body.parsed, op.out.status, op.out.statusText)
       /\ ret.v.status = Num(op.out.status)
       /\ ret.v.data = op.out.body.parsed

\* the first value of a sequence that is not undefined
FirstDefined(values) ==
  values[CHOOSE i \in 1..Len(values) :
           values[i] # Undefined /\ \A j \in 1..(i - 1) : values[j] = Undefined]

\* C10: when the remote call of executeRpcCall is rejected, the envelope has no
\* data; with a response its status and statusText are the response's and its
\* error the first defined of data.error.message, data.message, statusText and
\* the error's message; without a response it is {error: message, status: 0,
\* statusText: 'Error'}.
C10_RpcCallRejection ==
  (op.name = "executeRpcCall" /\ Len(sent) = 1 /\ op.out.kind = "reject")
    => LET error == op.out.error
           response == Get(error, "response")
           data == Get(response, "data")
       IN /\ ~ret.threw
          /\ ret.v.data = Undefined
          /\ IF response # Undefined
             THEN /\ ret.v.status = Get(response, "status")
                  /\ ret.v.statusText = Get(response, "statusText")
                  /\ ret.v.error = FirstDefined(<<Get(Get(data, "error"), "message"),
                                                  Get(data, "message"),
                                                  Get(response, "statusText"),
                                                  Get(error, "message")>>)
             ELSE /\ ret.v.status = Num(0)
                  /\ ret.v.statusText = Str(<<"Error">>)
                  /\ ret.v.error = Get(error, "message")

C10_Witness ==
  /\ op.name = "executeRpcCall"
  /\ op.out.kind = "reject"
  /\ Get(Get(Get(op.out.error, "response"), "data"), "error") = Str(<<"Rate limit exceeded">>)
  /\ ret.v.error = Str(<<"Too Many Requests">>)
  /\ ret.v.status = Num(429)

\* the text ends with the given text
EndsWith(s, p) == Len(p) <= Len(s) /\ SubSeq(s, Len(s) - Len(p) + 1, Len(s)) = p

\* C11: when the gateway call gets no HTTP response at all, on the REST and on
\* the JSON-RPC path alike, the envelope has status 500 with statusText
\* 'Network Error' (or status 0), an error that carries the failure message, and
\* no data other than null.
C11_NetworkFailureEnvelope ==
  (/\ op.name \in {"executeChainRequest", "executeRequest"}
   /\ Len(sent) = 1
   /\ op.out.kind = "reject")
    => /\ ~ret.threw
       /\ \/ ret.v.status = Num(500) /\ ret.v.statusText = Str(<<"Network Error">>)
          \/ ret.v.status = Num(0)
       /\ Truthy(ret.v.error) /\ EndsWith(ret.v.error.v, op.out.message)
       /\ ret.v.data \in {Null, Undefined}

\* C12: when a response with a JSON content type has a non-blank body that is
\* not valid JSON, on every request path the call returns an envelope whose
\* data is the raw body text.
C12_UnparseableBodyIsRawText ==
  (/\ op.name \in {"executeChainRequest", "executeRequest"}
   /\ Len(sent) = 1
   /\ op.out.kind = "response"
   /\ op.out.contentType = ContentJson
   /\ op.out.body.parsed = Invalid
   /\ Trim(op.out.body.raw) # <<>>)
    => /\ ~ret.threw
       /\ ret.v.data = Str(op.out.body.raw)

\* the names a catalog advertises
AdvertisedNames(gateways) ==
  UNION { {gateways[g][c].gatewayName : c \in 1..Len(gateways[g])} : g \in 1..Len(gateways) }

\* C13: the list of supported chains holds exactly the names the vendor catalog
\* advertises and the keys of the override table, each name once.
C13_SupportedChainsIsUnion ==
  (op.name \in {"GatewayTools.getSupportedChains", "getSupportedChains"} /\ ~ret.threw)
    => /\ {ret.v.a[i] : i \in 1..Len(ret.v.a)}
            = AdvertisedNames(VendorCatalog) \cup DOMAIN byoRpcUrls
       /\ \A i, j \in 1..Len(ret.v.a) : ret.v.a[i] = ret.v.a[j] => i = j

\* GatewayTools.getSupportedChains alone returns that union
SupportedChainsOfTools ==
  op.name = "GatewayTools.getSupportedChains"
    => /\ {ret.v.a[i] : i \in 1..Len(ret.v.a)}
            = AdvertisedNames(gatewayFeature) \cup DOMAIN byoRpcUrls
       /\ \A i, j \in 1..Len(ret.v.a) : ret.v.a[i] = ret.v.a[j] => i = j

\* a method catalog: an object of endpoints
IsMethodCatalog(value) == value.t = "obj"

\* C14: listing the supported methods of a chain never fails: for every chain
\* string it returns a method catalog, and for a chain with no specific entry
\* the catalog is the generic EVM JSON-RPC list under '/jsonrpc'.
C14_MethodsNeverFail ==
  op.name \in {"getSupportedMethods", "getAvailableMethods"}
    => /\ ~ret.threw
       /\ IsMethodCatalog(ret.v)
       /\ (op.name = "getSupportedMethods" /\ op.chain \notin DOMAIN mockResponses)
            => ret.v = GenericMethods

\* C17: executeRpcCall with an empty chain or method, and
\* TatumApiClient.executeRequest with an empty method or path or a verb outside
\* GET/POST/PUT/DELETE/PATCH, return a 400 'Bad Request' envelope and put no
\* request on the network.
C17_InvalidRequestNotSent ==
  (\/ op.name = "executeRpcCall" /\ (op.chain = <<>> \/ op.method = <<>>)
   \/ /\ op.name = "TatumApiClient.executeRequest"
      /\ \/ op.method = <<>>
         \/ op.url = <<>>
         \/ \A verb \in {"GET", "POST", "PUT", "DELETE", "PATCH"} :
              ToUpperCase(op.method) # <<verb>>)
    => /\ sent = <<>>
       /\ ~ret.threw
       /\ ret.v.status = Num(400)
       /\ ret.v.statusText = Str(<<"Bad Request">>)
       /\ Truthy(ret.v.error)

C17_Witness ==
  /\ op.name = "TatumApiClient.executeRequest"
  /\ op.method = <<"GET">>
  /\ op.url = <<>>
  /\ op.params # Obj(<<>>)
  /\ sent = <<>>
  /\ ret.v.status = Num(400)

\* how a tool response is shaped: a content list with one text item holding JSON
WellFormedResponse(response) ==
  /\ DOMAIN response = {"content"}
  /\ Len(response.content) = 1
  /\ response.content[1].type = "text"
  /\ response.content[1].text.t = "json"

\* C15: the CallTool handler returns a well-formed tool response for every
\* tool name and argument set and never lets an exception reach the protocol
\* server.
C15_CallToolAlwaysResponds ==
  op.name \in {"CallTool", "CallTool (older server)"}
    => ~ret.threw /\ WellFormedResponse(ret.v)

\* the handler of src/index.ts on its own does so
CallToolOfIndexResponds ==
  op.name = "CallTool" => ~ret.threw /\ WellFormedResponse(ret.v)

\* the calls that execute a request against a gateway or the API
ExecuteCalls ==
  {"executeRpcCall", "executeChainRequest", "executeRequest", "TatumApiClient.executeRequest"}

\* C16: each execute call puts at most one request on the network, whatever the
\* outcome of that request (network failure, non-2xx, unparseable body).
C16_AtMostOneRequest ==
  op.name \in ExecuteCalls => Len(sent) <= 1

\* an RPC call whose only request was rejected by the network
C16_Witness ==
  /\ op.name = "executeRpcCall"
  /\ op.out.kind = "reject"
  /\ ~HasKey(op.out.error, "response")
  /\ Len(sent) = 1
  /\ Truthy(ret.v.error)

\* C18: once getAvailableMethods has succeeded for a gateway URL, every later
\* call for that URL returns the cached value and sends nothing, and no step
\* removes or changes an entry of the method cache.
C18_MethodCacheIsKept ==
  [][ /\ \A url \in DOMAIN methodsCache :
           url \in DOMAIN methodsCache' /\ methodsCache'[url] = methodsCache[url]
      /\ (Idle /\ op'.name = "getAvailableMethods" /\ op'.url \in DOMAIN methodsCache)
           => /\ sent' = <<>>
              /\ ret' = Return(methodsCache[op'.url])
              /\ nsent' = nsent ]_vars

\* a call answered from the cache while the network would have answered
\* something else
C18_Witness ==
  /\ op.name = "getAvailableMethods"
  /\ op.url \in DOMAIN methodsCache
  /\ sent = <<>>
  /\ ~ret.threw
  /\ ret.v = methodsCache[op.url]
  /\ op.out.kind # "reject"
  /\ Ok(op.out)
  /\ op.out.body.parsed \notin {Invalid, ret.v}

\* a pair that names both a chain and a URL
Complete(pair) == pair.chain # <<>> /\ pair.url # <<>> /\ pair.comma

\* C19: the override table of 'chain1,url1;chain2,url2;...' maps each chain to
\* its URL with the blanks around them removed; a pair lacking a chain or a URL
\* is skipped without affecting the others; of several pairs for one chain the
\* last wins.
C19_OverrideTable ==
  op.name = "loadByoRpcConfig"
    => LET pairs == op.params
           complete == {i \in 1..Len(pairs) : Complete(pairs[i])}
           Last(chain) ==
             CHOOSE i \in complete :
               /\ pairs[i].chain = chain
               /\ \A j \in complete : pairs[j].chain = chain => j <= i
       IN /\ DOMAIN byoRpcUrls = {pairs[i].chain : i \in complete}
          /\ \A chain \in DOMAIN byoRpcUrls : byoRpcUrls[chain] = pairs[Last(chain)].url

\* a text with two pairs for one chain, the later one written with blanks, and
\* a pair without URL in between
C19_Witness ==
  /\ op.name = "loadByoRpcConfig"
  /\ Len(op.params) = 3
  /\ op.params[1] = Pair(Chain("ethereum-", "mainnet"), MyNode, TRUE, FALSE)
  /\ ~Complete(op.params[2])
  /\ op.params[3] = Pair(Chain("ethereum-", "mainnet"), MyChainUrl, TRUE, TRUE)
  /\ byoRpcUrls = (Chain("ethereum-", "mainnet") :> MyChainUrl)

\* C20: the vendor catalog is fetched at most once per GatewayService
\* instance, however the gateway calls that arrive before the first fetch has
\* ended interleave, and whether that fetch succeeds or fails.
C20_CatalogFetchedOnce == fetches <= 1

\* calls that do not overlap fetch the catalog once
CatalogFetchedOnceInTurn ==
  [][(\A c \in Callers : pc[c] \notin {"initialize", "ensureDataLoaded"}) /\ dataFetched
       => fetches' = fetches]_vars

\* C21: once the catalog is marked loaded (dataFetched is set), cachedGateways
\* and cachedChains never change again, however concurrent calls interleave.
C21_CatalogFrozenOnceLoaded ==
  [][dataFetched => cachedGateways' = cachedGateways /\ cachedChains' = cachedChains]_vars

\* calls that do not overlap leave a loaded catalog as it is
CatalogFrozenInTurn ==
  [][(dataFetched /\ \A c \in Callers : pc[c] \notin {"initialize", "ensureDataLoaded"})
       => cachedGateways' = cachedGateways /\ cachedChains' = cachedChains]_vars

\* C22: of several getAvailableMethods calls for one URL that all missed the
\* cache, each returns the value it fetched, the cache holds the value of the
\* last call that fetched one, and a call whose fetch failed neither removes
\* nor replaces what the cache holds for that URL.
C22_ConcurrentMethodFetches ==
  [][\A c \in Callers :
       (pc[c] = "getAvailableMethods" /\ pc'[c] = "done")
         => IF op'.out.kind # "reject" /\ Ok(op'.out) /\ op'.out.body.parsed # Invalid
            THEN /\ ret' = Return(op'.out.body.parsed)
                 /\ MapHas(methodsCache', MethodsUrl)
                 /\ methodsCache'[MethodsUrl] = op'.out.body.parsed
            ELSE /\ ret'.threw
                 /\ methodsCache' = methodsCache]_vars

\* a call whose fetch failed ends while the cache holds what a concurrent call
\* has written since this one missed the cache
C22_Witness ==
  /\ op.name = "getAvailableMethods"
  /\ op.out.kind = "response"
  /\ ~Ok(op.out)
  /\ sent # <<>>
  /\ ret.threw
  /\ MapHas(methodsCache, MethodsUrl)
  /\ \E c \in Callers : pc[c] = "done"

\* the number of places at which part occurs in s
Occurrences(part, s) ==
  Cardinality({i \in 1..(Len(s) - Len(part) + 1) : SubSeq(s, i, i + Len(part) - 1) = part})

\* the fixed API root of a chain's family, without its leading slash
ApiRoot(chainName) == Tail(getChainApiConfig(chainName).basePathPrefix.v)

\* the families with a fixed API root
RootedChains ==
  {chain \in RestChains : chain[1] \in {"kadena-", "cardano-", "flow-"}}

\* C23: for a REST chain of a family with a fixed API root and a method that
\* already contains that root, with or without a leading slash, the path of
\* the request contains the root exactly once.
C23_RootExactlyOnce ==
  (/\ op.name = "executeChainRequest"
   /\ op.chain \in RootedChains
   /\ op.chain \in CatalogNames(cachedGateways)
   /\ Occurrences(ApiRoot(op.chain), op.method) = 1
   /\ Len(sent) = 1)
    => Occurrences(ApiRoot(op.chain), sent[1].url) = 1

\* a method that begins with the root, slash included, keeps it once
RootWithSlashOnce ==
  (/\ op.name = "executeChainRequest"
   /\ op.chain \in RootedChains
   /\ op.chain \in CatalogNames(cachedGateways)
   /\ StartsWith(op.method, <<"/">> \o ApiRoot(op.chain))
   /\ Occurrences(ApiRoot(op.chain), op.method) = 1
   /\ Len(sent) = 1)
    => Occurrences(ApiRoot(op.chain), sent[1].url) = 1

HttpVerbs == {"GET", "POST"}

\* a method of the form '<VERB> <path>'
VerbAndPath(method) ==
  /\ Len(method) >= 3
  /\ method[1] \in HttpVerbs
  /\ method[2] = " "
  /\ \A i \in 3..Len(method) : method[i] \notin HttpVerbs \cup {" "}

\* C24: for a chain of the kadena-, cardano- or flow- family and a method of
\* the form '<VERB> <path>', the request uses the caller's verb, and the verb is
\* not part of the URL.
C24_VerbIsKept ==
  (/\ op.name = "executeChainRequest"
   /\ op.chain \in RootedChains
   /\ op.chain \in CatalogNames(cachedGateways)
   /\ VerbAndPath(op.method)
   /\ Len(sent) = 1)
    => /\ sent[1].verb = <<op.method[1]>>
       /\ \A i \in 1..Len(sent[1].url) : sent[1].url[i] \notin HttpVerbs

\* the same for a path that already holds the family's root
VerbIsKeptUnderRoot ==
  (/\ op.name = "executeChainRequest"
   /\ op.chain \in RootedChains
   /\ op.chain \in CatalogNames(cachedGateways)
   /\ VerbAndPath(op.method)
   /\ Includes(op.method, <<IF op.chain[1] = "kadena-" THEN "chainweb"
                            ELSE IF op.chain[1] = "cardano-" THEN "api/v0" ELSE "v1">>)
   /\ Len(sent) = 1)
    => /\ sent[1].verb = <<op.method[1]>>
       /\ \A i \in 1..Len(sent[1].url) : sent[1].url[i] \notin HttpVerbs

\* the object a tool response holds as JSON
ResponseObj(response) == response.content[1].text.v

\* the envelope that the response of gateway_execute_rpc carries as its data
\* (the JSON text of the envelope), Undefined when the data is null
CarriedEnvelope(response) ==
  LET data == Get(ResponseObj(response), "data")
  IN IF data.t = "str" THEN data.v[1].v ELSE Undefined

\* C25: whenever the envelope that the gateway service returned to a gateway
\* tool call carries an error, the tool response reports success = false with
\* that error and that status.
C25_EnvelopeErrorIsFailure ==
  (/\ op.name \in {"CallTool", "CallTool (older server)"}
   /\ op.method = GatewayExecuteRpc
   /\ ~ret.threw
   /\ Truthy(Get(CarriedEnvelope(ret.v), "error")))
    => /\ Get(ResponseObj(ret.v), "success") = Bool(FALSE)
       /\ Get(ResponseObj(ret.v), "error") = Get(CarriedEnvelope(ret.v), "error")
       /\ Get(ResponseObj(ret.v), "status") = Get(CarriedEnvelope(ret.v), "status")

\* success = true comes with status 200 and no error of the response itself
SuccessIs200 ==
  (op.name \in {"CallTool", "CallTool (older server)"} /\ ~ret.threw
     /\ StartsWith(op.method, <<GatewayPrefix>>)
     /\ Get(ResponseObj(ret.v), "success") = Bool(TRUE))
    => /\ Get(ResponseObj(ret.v), "status") = Num(200)
       /\ Get(ResponseObj(ret.v), "error") = Null

\* the entries of a catalog in iteration order
RECURSIVE Flatten(_)
Flatten(gateways) ==
  IF gateways = <<>> THEN <<>> ELSE Head(gateways) \o Flatten(Tail(gateways))

\* the catalog a resolving call looks into
ResolveCatalog ==
  IF op.name = "getGatewayUrl" THEN gatewayFeature ELSE cachedGateways

C27_OverrideIsExactMatch ==
  (op.name \in {"getGatewayUrl", "executeRpcCall"} /\ ~MapHas(byoRpcUrls, op.chain))
    => /\ op.name = "getGatewayUrl"
            => ret = Return(CatalogGatewayUrl(gatewayFeature, op.chain))
       /\ op.name = "executeRpcCall"
            => \A i \in 1..Len(sent) :
                 /\ Str(sent[i].url) = CatalogGatewayUrl(gatewayFeature, op.chain)
                 /\ "X-API-Key" \in DOMAIN sent[i].headers
                 /\ \A k \in DOMAIN byoRpcUrls : sent[i].url # byoRpcUrls[k]

\* 'xrp-mainnet' is overridden and executeRpcCall is called with the other
\* name of the same catalog entry, 'ripple-mainnet'
C27_Witness ==
  /\ op.name = "executeRpcCall"
  /\ op.chain = Chain("ripple-", "mainnet")
  /\ MapHas(byoRpcUrls, Chain("xrp-", "mainnet"))
  /\ CatalogGatewayUrl(gatewayFeature, Chain("xrp-", "mainnet"))
       = CatalogGatewayUrl(gatewayFeature, op.chain)
  /\ Len(sent) = 1
  /\ sent[1].url = UrlOf(Chain("ripple-", "mainnet"))
  /\ "X-API-Key" \in DOMAIN sent[1].headers

\* the query string of a URL, and its key=value pairs
QueryOf(url) ==
  IF IndexOf(url, "?") = 0 THEN <<>> ELSE SubSeq(url, IndexOf(url, "?") + 1, Len(url))
QueryPairs(url) ==
  IF QueryOf(url) = <<>> THEN <<>>
  ELSE [i \in 1..Len(Split(QueryOf(url), "&")) |-> Split(Split(QueryOf(url), "&")[i], "=")]

\* the entries of a mapping whose value is neither null nor undefined
Present(entries) == {i \in 1..Len(entries) : entries[i].v \notin {Null, Undefined}}

\* C28: a REST GET of executeChainRequest whose params is one keyed mapping has
\* in its URL's query string exactly the keys whose value is neither null nor
\* undefined, each once and with its (encoded) value, and it has no body.
C28_GetQueryFromMapping ==
  (/\ op.name = "executeChainRequest"
   /\ Len(op.params) = 1 /\ op.params[1].t = "obj")
    => \A r \in 1..Len(sent) :
         sent[r].verb = <<"GET">>
           => LET entries == op.params[1].e
                  pairs == QueryPairs(sent[r].url)
              IN /\ \A i \in Present(entries) :
                      \E j \in 1..Len(pairs) :
                        /\ pairs[j] = <<Encode(entries[i].k), Encode(ToStr(entries[i].v))>>
                        /\ \A h \in 1..Len(pairs) : pairs[h][1] = pairs[j][1] => h = j
                 /\ \A j \in 1..Len(pairs) :
                      \E i \in Present(entries) : pairs[j][1] = Encode(entries[i].k)
                 /\ sent[r].body = Undefined

\* a GET went out for a mapping with a null and an undefined value, and its
\* query string has the two other keys
C28_Witness ==
  /\ op.name = "executeChainRequest"
  /\ Len(op.params) = 1 /\ op.params[1].t = "obj"
  /\ \E i \in 1..Len(op.params[1].e) : op.params[1].e[i].v = Null
  /\ \E i \in 1..Len(op.params[1].e) : op.params[1].e[i].v = Undefined
  /\ Len(sent) = 1
  /\ sent[1].verb = <<"GET">>
  /\ Len(QueryPairs(sent[1].url)) = 2
  /\ sent[1].body = Undefined

\* how often a string carries key as the name of a query parameter
AsQueryKey(key, s) ==
  Occurrences(<<"?">> \o key \o <<"=">>, s) + Occurrences(<<"&">> \o key \o <<"=">>, s)

\* C29: TatumApiClient.executeRequest adds no query parameter for a key it put
\* into a '{key}' placeholder of the path, and at most one for any other key:
\* the URL names the key as often as the path template did, no placeholder of
\* the key is left, and a key of neither use is named at most once.
C29_SubstitutedKeyNotInQuery ==
  op.name = "TatumApiClient.executeRequest"
    => \A r \in 1..Len(sent) : \A i \in 1..Len(op.params.e) :
         LET key == op.params.e[i].k
         IN IF Includes(op.url, Placeholder(key))
            THEN /\ AsQueryKey(key, sent[r].url) = AsQueryKey(key, op.url)
                 /\ ~Includes(sent[r].url, Placeholder(key))
            ELSE AsQueryKey(key, sent[r].url) <= AsQueryKey(key, op.url) + 1

\* a request went out whose path took 'address' and whose query string took
\* 'chain' and 'pageSize'
C29_Witness ==
  /\ op.name = "TatumApiClient.executeRequest"
  /\ Includes(op.url, Placeholder(<<"address">>))
  /\ HasKey(op.params, <<"address">>)
  /\ Len(sent) = 1
  /\ AsQueryKey(<<"address">>, sent[1].url) = 0
  /\ AsQueryKey(<<"chain">>, sent[1].url) = 1
  /\ AsQueryKey(<<"pageSize">>, sent[1].url) = 1
  /\ Includes(sent[1].url, EncodeComponent(<<"0x", "/", "a b">>))

Members(seq) == {seq[i] : i \in 1..Len(seq)}

\* C30: every name that getSupportedChains lists resolves to a gateway URL, on
\* GatewayTools (bundled catalog and override keys, resolved by
\* TatumConfig.getGatewayUrl) and on the fetching GatewayService (cachedChains,
\* resolved by its getGatewayUrl): a listing holds no name the resolver leaves
\* undefined, and a call that resolves a listed name returns a URL.
C30_ListedChainsResolve ==
  /\ op.name = "GatewayTools.getSupportedChains"
       => \A n \in Members(ret.v.a) :
            Truthy(ConfigGetGatewayUrl(byoRpcUrls, gatewayFeature, n))
  /\ (op.name = "getGatewayUrl"
        /\ op.chain \in Members(ToolsGetSupportedChains(byoRpcUrls, gatewayFeature)))
       => ~ret.threw /\ ret.v.t = "str" /\ ret.v.v # <<>>
  /\ (op.name = "getSupportedChains" /\ ~ret.threw)
       => \A n \in Members(ret.v.a) : Truthy(CatalogGatewayUrl(cachedGateways, n))
  /\ (op.name = "GatewayService.getGatewayUrl" /\ op.chain \in Members(cachedChains))
       => ~ret.threw /\ ret.v.t = "str" /\ ret.v.v # <<>>

\* an alias the catalog lists ('xrp-mainnet', the gatewayName of chain
\* 'ripple-mainnet') was resolved through the catalog, with an override table
\* that adds a name of no catalog to the listing
C30_Witness ==
  /\ op.name = "getGatewayUrl"
  /\ op.chain = Chain("xrp-", "mainnet")
  /\ ~MapHas(byoRpcUrls, op.chain)
  /\ op.chain \in Members(StaticSupportedChains(gatewayFeature))
  /\ \A g \in 1..Len(gatewayFeature) : \A c \in 1..Len(gatewayFeature[g]) :
       gatewayFeature[g][c].chain # op.chain
  /\ ret = Return(Str(UrlOf(Chain("ripple-", "mainnet"))))
=============================================================================
